---- MODULE Spec2Model ----
(***************************************************************************)
(* State-machine model of the four-bot trading engine (src/core).          *)
(*                                                                         *)
(* Prices are small integers; only their order matters to the code paths   *)
(* modelled here.  The EMA values of a bar (purple = short EMA, snake =    *)
(* long EMA) are carried with the bar: IndicatorCalculator recomputes them *)
(* from the bar list on every call and the consumers below only compare a  *)
(* bar's prices with the EMA values at the same index.                     *)
(*                                                                         *)
(* The M1 bar list of a symbol (bars_cache[symbol]['M1']['bars'], up to    *)
(* 7200 bars) is kept as what the engine reads of it: its length, the      *)
(* start minute of its last bar, its last bar, and the close and short EMA *)
(* of the bar before it.                                                   *)
(*                                                                         *)
(* Calls between the modules are modelled as binding to the callee's       *)
(* declared parameters (realtime_server.py:476 passes a third argument to  *)
(* check_all_gates, :542 a third to record_trade_result), the call to the  *)
(* undefined increment_consecutive_orders (:508) as having no effect, and  *)
(* config.get('trading', {}).get(k, d) in order_manager.py as the          *)
(* configured value of trading.k.                                          *)
(*                                                                         *)
(* Spec is the engine loop and SpecM1 the M1 state machine with its feed.  *)
(* The resampler, compute_bias, the bias cache, the day stop, the per-bot  *)
(* evaluator and the timezone anchor are also checked on their own, each   *)
(* under a specification that gives it its inputs (SpecResample,           *)
(* SpecCandle, SpecDaily, SpecDayStop, SpecEval, SpecClock).  An instant   *)
(* is a number of minutes or a (date, hour, minute) in the anchor's zone.  *)
(* Single calls (the D1 key, the structure check, the trend filter, the    *)
(* exit check, the M30 break in the warm-up) share the variables args and  *)
(* result: SpecKey, SpecFib, SpecTrend, SpecExit, SpecWarm.  SpecRisk      *)
(* drives the risk manager's daily aggregates over several trading days.   *)
(***************************************************************************)
EXTENDS Integers, Sequences, FiniteSets, TLC

\* ------------------------------------------------------------------ bounds
\* Number of M1 bars the broker returns per request (7200 in the source).
Window == 4
\* entry_m1.max_bars_between_cross_and_touch (20 by default).
max_bars_between == 1
\* indicators.snake.period (100 by default): bars needed before the long EMA exists.
snake_period == 2
\* Minutes of market time modelled.
MaxTime == 6

\* ------------------------------------------------------------------ data
Prices == {0, 1, 2}
PurpleLevels == {1}
\* below every price / above every price
SnakeLevels == {0, 3}

Bars == {b \in [low : Prices, high : Prices, close : Prices,
                purple : PurpleLevels, snake : SnakeLevels] :
            b.low <= b.close /\ b.close <= b.high}

NoBar == [low |-> 0, high |-> 0, close |-> 0, purple |-> 1, snake |-> 0]

\* A bar that is still forming can only widen its range when it is fetched again.
Revised(b) == {r \in Bars : r.low <= b.low /\ r.high >= b.high}

PainSymbols == {"PAINX"}
GainSymbols == {"GAINX"}
Symbols == PainSymbols \cup GainSymbols

VARIABLES
    m1_cache,      \* symbol -> [len, time, prev, curr]: the cached M1 bar list
    m1_states,     \* M1StateMachine.states: symbol -> state dict (partial)
    cross_time,    \* history: symbol -> start minute of the bar the pending cross was recorded on
    since_cross    \* history: symbol -> bars arrived after that bar, -1 once one of them touched

VARIABLES
    pc,             \* where bot_engine_loop is: "symbol", "entry", "exits", "sleep", "sleep_error"
    idx,            \* index in all_symbols of the symbol being processed
    todo,           \* bot_results['bot_results'] items the entry loop has not reached yet
    open_positions, \* OrderManager.open_positions: symbol -> dict in insertion order
    mt5_positions,  \* the broker's open positions
    next_ticket,    \* the ticket the broker gives to the next accepted order
    bot_states,     \* BotEngine.bot_states: symbol -> bot type -> state (partial)
    bias_cache,     \* DailyBiasService.bias_cache (partial)
    day,            \* the current trading day (one trading day is modelled)
    daily_stats,    \* RiskManager.daily_stats (partial)
    step,           \* what the entry loop did for the last bot it reached
    cycle_entries,  \* history: entries the broker accepted in this cycle, still open for the engine
    closed,         \* history: symbol -> bot types whose tracked position closed since the last evaluation
    stale,          \* history: tickets tracked but gone from the broker when this cycle began,
                    \* less those of symbols the cycle skipped
    ordered         \* history: the (symbol, bot) pairs an order was accepted for on the
                    \* READY signal the symbol's M1 machine holds

\* State of the components checked on their own, each under its own specification.
VARIABLES
    m1_bars,          \* resampler: the M1 list given to resample_m1_to_timeframe
    target_tf,        \* resampler: the target timeframe
    resampled,        \* resampler: the list it returned
    yesterday_candle, \* daily bias: the candle compute_bias is given
    bias_result,      \* daily bias: what get_bias returned for it, with the cache it left
    trading_day,      \* bias cache: tz_handler.get_current_trading_day()
    d1_list,          \* bias cache: the D1 list bot_engine_loop holds for the symbol
    svc_cache,        \* bias cache: DailyBiasService.bias_cache
    used_day,         \* bias cache, history: the day of the candle the cached bias came from
    returned,         \* bias cache: the last value get_bias returned
    day_lows,         \* day stop: lows of the M1 bars of the trading day, oldest first
    stop_states,      \* day stop: BotEngine.bot_states
    stop_seen,        \* day stop, history: bars in the list at the last process_symbol call
    stop_day,         \* day stop: tz_handler.get_current_trading_day()
    stop_cache,       \* day stop: DailyBiasService.bias_cache
    eval_in,          \* evaluator: the rows process_symbol computed for the symbol
    eval_out,         \* evaluator: the bot_results it returned
    ref_time,         \* timezone anchor: two instants, local time
    ref_out,          \* timezone anchor: their trading days and is_daily_boundary_crossed
    ema_in,           \* EMA: the prices, the period and the configured smoothing
    ema_out,          \* EMA: what calculate_ema returned for them
    m30_feed,         \* M30 break: the M30 list process_symbol holds, as sides of the long EMA
    m30_latch,        \* M30 break: M30BreakDetector.states
    now,              \* bar cache: datetime.now(), in seconds
    last_update,      \* bar cache: timeframe -> bars_cache[symbol][tf]['last_update'], -1 if absent
    last_ask,         \* bar cache, history: timeframe -> when the broker was last asked, -1 if never
    args,             \* functions checked on their own: the arguments of the call
    result            \* functions checked on their own: what the call returned

resvars == <<m1_bars, target_tf, resampled>>

candvars == <<yesterday_candle, bias_result>>

dailyvars == <<trading_day, d1_list, svc_cache, used_day, returned>>

stopvars == <<day_lows, stop_states, stop_seen, stop_day, stop_cache>>

evalvars == <<eval_in, eval_out>>

clockvars == <<ref_time, ref_out>>

emavars == <<ema_in, ema_out>>

m30vars == <<m30_feed, m30_latch>>

fetchvars == <<now, last_update, last_ask>>

callvars == <<args, result>>

m1vars == <<m1_cache, m1_states, cross_time, since_cross>>

tradevars == <<pc, idx, todo, open_positions, mt5_positions, next_ticket, bot_states,
               bias_cache, day, daily_stats, step, cycle_entries, closed, stale, ordered>>

vars == <<m1vars, tradevars, resvars, candvars, dailyvars, stopvars, evalvars, clockvars,
         emavars, m30vars, fetchvars, callvars>>

compvars == <<resvars, candvars, dailyvars, stopvars, evalvars, clockvars, emavars, m30vars,
             fetchvars, callvars>>

\* Each component before anything was given to it.
IdleResample == m1_bars = << >> /\ target_tf = "M5" /\ resampled = << >>

NoBias == [bias |-> "none", level50x2 |-> {}, cache |-> << >>]

IdleCandle ==
    /\ yesterday_candle = [open |-> 0, high |-> 0, low |-> 0, close |-> 0]
    /\ bias_result = NoBias

NoReturn == [bias |-> "none", level50x2 |-> {}, hit |-> FALSE, arg |-> << >>]

IdleDaily ==
    /\ trading_day = 0
    /\ d1_list = << >>
    /\ svc_cache = << >>
    /\ used_day = -1
    /\ returned = NoReturn

IdleStop ==
    /\ day_lows = << >> /\ stop_states = << >> /\ stop_seen = -1
    /\ stop_day = 0 /\ stop_cache = << >>

IdleEval == eval_in = << >> /\ eval_out = << >>

IdleClock == ref_time = << >> /\ ref_out = << >>

IdleEma == ema_in = << >> /\ ema_out = << >>

IdleM30 == m30_feed = << >> /\ m30_latch = << >>

IdleFetch == now = 0 /\ last_update = << >> /\ last_ask = << >>

IdleCall == args = << >> /\ result = << >>

\* ------------------------------------------------------- M1 state machine
IdleState == [state |-> "idle", cross_bar_index |-> -1,
              cross_direction |-> "none", ready_bar_index |-> -1]

Touches(bar) == bar.low <= bar.purple /\ bar.purple <= bar.high

ValidBuyTouchIgnoresSnake(bar) == bar.close >= bar.purple

ValidBuyTouch(bar) == bar.close >= bar.purple /\ bar.close >= bar.snake

ValidSellTouch(bar) == bar.close <= bar.purple /\ bar.close < bar.snake

UpdateIdle(st, last_idx, prev, curr) ==
    IF prev.close < prev.purple /\ curr.close > curr.purple
    THEN [st EXCEPT !.state = "crossed_up", !.cross_bar_index = last_idx,
                    !.cross_direction = "up"]
    ELSE IF prev.close > prev.purple /\ curr.close < curr.purple
    THEN [st EXCEPT !.state = "crossed_down", !.cross_bar_index = last_idx,
                    !.cross_direction = "down"]
    ELSE st

TimedOut(st, last_idx) == last_idx - st.cross_bar_index > max_bars_between

UpdateCrossedUp(st, last_idx, curr) ==
    IF TimedOut(st, last_idx)
    THEN [st EXCEPT !.state = "idle", !.cross_bar_index = -1]
    ELSE IF Touches(curr)
    THEN IF ValidBuyTouch(curr)
         THEN [st EXCEPT !.state = "ready_buy", !.ready_bar_index = last_idx]
         ELSE [st EXCEPT !.state = "idle", !.cross_bar_index = -1]
    ELSE IF curr.close < curr.purple
    THEN [st EXCEPT !.state = "idle", !.cross_bar_index = -1]
    ELSE st

UpdateCrossedDown(st, last_idx, curr) ==
    IF TimedOut(st, last_idx)
    THEN [st EXCEPT !.state = "idle", !.cross_bar_index = -1]
    ELSE IF Touches(curr)
    THEN IF ValidSellTouch(curr)
         THEN [st EXCEPT !.state = "ready_sell", !.ready_bar_index = last_idx]
         ELSE [st EXCEPT !.state = "idle", !.cross_bar_index = -1]
    ELSE IF curr.close > curr.purple
    THEN [st EXCEPT !.state = "idle", !.cross_bar_index = -1]
    ELSE st

UpdateHeldExpires(st) == [st EXCEPT !.state = "idle", !.cross_bar_index = -1]

\* READY_BUY, READY_SELL and EXECUTED: update() passes.
UpdateHeld(st) == st

\* M1StateMachine.update on a bar list of length len whose last two bars are prev, curr.
\* Returns the new states mapping.
M1Update(states, symbol, len, prev, curr) ==
    IF len < 2 \/ len < snake_period
    THEN states
    ELSE LET st == IF symbol \in DOMAIN states THEN states[symbol] ELSE IdleState
             last_idx == len - 1
             new == CASE st.state = "idle" -> UpdateIdle(st, last_idx, prev, curr)
                      [] st.state = "crossed_up" -> UpdateCrossedUp(st, last_idx, curr)
                      [] st.state = "crossed_down" -> UpdateCrossedDown(st, last_idx, curr)
                      [] OTHER -> UpdateHeld(st)
         IN  [x \in DOMAIN states \cup {symbol} |-> IF x = symbol THEN new ELSE states[x]]

M1MarkExecuted(states, symbol) ==
    IF symbol \in DOMAIN states
    THEN [states EXCEPT ![symbol].state = "executed"]
    ELSE states

M1Reset(states, symbol) ==
    IF symbol \in DOMAIN states
    THEN [states EXCEPT ![symbol] = IdleState]
    ELSE states

StateOf(states, symbol) ==
    IF symbol \in DOMAIN states THEN states[symbol].state ELSE "none"

is_buy_signal(states, symbol) == StateOf(states, symbol) = "ready_buy"

is_sell_signal(states, symbol) == StateOf(states, symbol) = "ready_sell"

\* ------------------------------------------------------------ bar cache
\* What update() reads of m1_bars[prev_idx] and purple_values[prev_idx].
PrevOf(bar) == [close |-> bar.close, purple |-> bar.purple]

EmptyCache == [len |-> 0, time |-> -1, prev |-> PrevOf(NoBar), curr |-> NoBar]

Store(f) == [len |-> f.len, time |-> f.time, prev |-> PrevOf(f.prev), curr |-> f.curr]

GrownLen(len, n) == IF len + n > Window THEN Window ELSE len + n

\* The bar lists get_bars_cached(symbol, 'M1', 7200) can return, as
\* [len, time, prev, curr] with prev and curr the last two bars of the list.
\* A fetch asks copy_rates_from_pos from position 0, so the last bar is the
\* forming one.  First fetch: whatever history the broker has, up to Window
\* bars.  Later fetch: either no new bar has started (the forming bar may have
\* moved) or one has; the list grows up to Window bars and then slides.
FirstFetch ==
    {[len |-> l, time |-> 0, prev |-> p, curr |-> q] :
        l \in 2..Window, p \in Bars, q \in Bars}
    \cup {[len |-> 1, time |-> 0, prev |-> NoBar, curr |-> q] : q \in Bars}

SameBars(c) ==
    {[len |-> c.len, time |-> c.time, prev |-> p, curr |-> c.curr] :
        p \in {b \in Bars : PrevOf(b) = c.prev}}

LaterFetch(c) ==
    {[len |-> c.len, time |-> c.time, prev |-> p, curr |-> q] :
        p \in {b \in Bars : PrevOf(b) = c.prev}, q \in Revised(c.curr)}
    \cup (IF c.time < MaxTime
          THEN {[len |-> GrownLen(c.len, 1), time |-> c.time + 1, prev |-> p, curr |-> q] :
                  p \in Revised(c.curr), q \in Bars}
          ELSE {})

\* get_bars_cached: the cached list while it is younger than 60 s, else a fetch.
get_bars_cached(c) == IF c.len = 0 THEN FirstFetch ELSE SameBars(c) \cup LaterFetch(c)

\* ---------------------------------------------------------------- history
InCrossed(st) == st \in {"crossed_up", "crossed_down"}

InReady(st) == st \in {"ready_buy", "ready_sell"}

\* Did a bar that started after minute ct touch the short EMA, among the last two of f?
TouchedAfter(f, ct) ==
    \/ f.time > ct /\ Touches(f.curr)
    \/ f.time - 1 > ct /\ f.len >= 2 /\ Touches(f.prev)

HistoryAfterUpdate(s, f, old, new) ==
    /\ cross_time' = [cross_time EXCEPT ![s] =
          IF InCrossed(new) /\ ~InCrossed(old) THEN f.time
          ELSE IF ~InCrossed(new) THEN -1 ELSE @]
    /\ since_cross' = [since_cross EXCEPT ![s] =
          IF InCrossed(new) /\ ~InCrossed(old) THEN 0
          ELSE IF ~InCrossed(new) THEN -1
          ELSE IF @ = -1 \/ TouchedAfter(f, cross_time[s]) THEN -1
          ELSE f.time - cross_time[s]]

\* ------------------------------------------------------------ trade data
\* Tickets the broker can hand out.
MaxTickets == 2
\* trading.max_concurrent_orders (3 by default).
max_concurrent_orders == 2

\* daily_bias.epsilon_wick_ratio, in percent.
epsilon_pct == 5
daily_target_usd == 100
daily_stop_usd == 40
max_spread_pips == 2
session_enabled == TRUE
enable_daily_target == TRUE
enable_daily_stop == TRUE
early_exit_on_m5_purple_break == TRUE

\* config.get_all_symbols(): pain, then gain, then other symbols.
SymbolOrder == <<"PAINX", "GAINX">>

\* The tag the engine's orders carry.
magic == 234000

BotTypes == {"pain_buy", "pain_sell", "gain_buy", "gain_sell"}

is_pain_symbol(s) == s \in PainSymbols

is_gain_symbol(s) == s \in GainSymbols

Max2(a, b) == IF a >= b THEN a ELSE b

Min2(a, b) == IF a <= b THEN a ELSE b

Abs(a) == IF a >= 0 THEN a ELSE -a

\* ---------------------------------------------------------- BotEngine
initialize_symbol(states, s) ==
    IF s \in DOMAIN states
    THEN states
    ELSE [x \in DOMAIN states \cup {s} |->
            IF x = s THEN [b \in BotTypes |-> "idle"] ELSE states[x]]

\* ---------------------------------------------------- DailyBiasService
\* Yesterday's D1 candles the broker may report: long lower wick, long upper
\* wick, full body.
Candles == {[open |-> 2, high |-> 2, low |-> 0, close |-> 2],
            [open |-> 0, high |-> 2, low |-> 0, close |-> 0],
            [open |-> 0, high |-> 2, low |-> 0, close |-> 2]}

\* d1_bars as get_bias reads it: fewer than two bars, or d1_bars[-2].
D1Inputs == {<< >>} \cup {<<c>> : c \in Candles}

compute_bias_level_always(candle) ==
    [bias |-> IF candle.high - Max2(candle.open, candle.close)
                    > Min2(candle.open, candle.close) - candle.low
              THEN "BUY" ELSE "SELL",
     level50x2 |-> {2 * Min2(candle.open, candle.close)
                      - (Min2(candle.open, candle.close) - candle.low)}]

\* level50 is kept doubled, as a set: {} is None.
compute_bias(candle) ==
    LET body == Abs(candle.close - candle.open)
        upper_wick == candle.high - Max2(candle.open, candle.close)
        lower_wick == Min2(candle.open, candle.close) - candle.low
        longest_wick == Max2(upper_wick, lower_wick)
    IN  IF ~(longest_wick > body)
        THEN [bias |-> "NEUTRAL", level50x2 |-> {}]
        ELSE IF lower_wick * 100 > upper_wick * (100 + epsilon_pct)
        THEN [bias |-> "SELL",
              level50x2 |-> {2 * Min2(candle.open, candle.close) - lower_wick}]
        ELSE IF upper_wick * 100 > lower_wick * (100 + epsilon_pct)
        THEN [bias |-> "BUY", level50x2 |-> {}]
        ELSE [bias |-> "NEUTRAL", level50x2 |-> {}]

get_bias_any_day(cache, s, d1_bars, current_day) ==
    IF s \in DOMAIN cache
    THEN [bias |-> cache[s].bias, level50x2 |-> cache[s].level50x2, cache |-> cache]
    ELSE IF d1_bars = << >>
    THEN [bias |-> "NEUTRAL", level50x2 |-> {}, cache |-> cache]
    ELSE [bias |-> compute_bias(d1_bars[1]).bias,
          level50x2 |-> compute_bias(d1_bars[1]).level50x2,
          cache |-> [x \in DOMAIN cache \cup {s} |->
                      [bias |-> compute_bias(d1_bars[1]).bias,
                       level50x2 |-> compute_bias(d1_bars[1]).level50x2,
                       day |-> current_day]]]

get_bias(cache, s, d1_bars, current_day) ==
    IF s \in DOMAIN cache /\ cache[s].day = current_day
    THEN [bias |-> cache[s].bias, level50x2 |-> cache[s].level50x2, cache |-> cache]
    ELSE IF d1_bars = << >>
    THEN [bias |-> "NEUTRAL", level50x2 |-> {}, cache |-> cache]
    ELSE LET r == compute_bias(d1_bars[1])
         IN  [bias |-> r.bias, level50x2 |-> r.level50x2,
              cache |-> [x \in DOMAIN cache \cup {s} |->
                          IF x = s
                          THEN [bias |-> r.bias, level50x2 |-> r.level50x2,
                                day |-> current_day]
                          ELSE cache[x]]]

is_day_stop_triggered(cache, s, current_low) ==
    /\ s \in DOMAIN cache
    /\ cache[s].bias = "SELL"
    /\ cache[s].level50x2 # {}
    /\ \A v \in cache[s].level50x2 : 2 * current_low <= v

\* The day-stop step of process_symbol (lines 151-157).
DayStop(states, cache, s, bias, level50x2, current_low) ==
    IF bias = "SELL" /\ level50x2 # {} /\ is_day_stop_triggered(cache, s, current_low)
    THEN [states EXCEPT ![s]["pain_sell"] = "halted"]
    ELSE states

is_halted_never(states, s) == FALSE

is_halted(states, s) == states[s]["pain_sell"] = "halted"

\* What the timeframes other than M1 contribute to a symbol's checks:
\*   trend_buy / trend_sell         : trend_filter.check_alignment(...)['aligned']
\*   break_up / break_down          : m30_break.check_upward_break / check_downward_break
\*   structure_buy / structure_sell : fib_checker.check_gain_*_structure(...)['valid']
AllFilters == [trend_buy : BOOLEAN, trend_sell : BOOLEAN, break_up : BOOLEAN,
               break_down : BOOLEAN, structure_buy : BOOLEAN, structure_sell : BOOLEAN]

\* The market as the engine loop meets it: everything points up, everything
\* points down, or the higher timeframes disagree.
Filters == {fl \in AllFilters :
              /\ fl.break_up = fl.structure_buy /\ fl.break_down = fl.structure_sell
              /\ \/ fl.trend_buy /\ ~fl.trend_sell /\ fl.break_up /\ ~fl.break_down
                 \/ ~fl.trend_buy /\ fl.trend_sell /\ ~fl.break_up /\ fl.break_down
                 \/ ~fl.trend_buy /\ ~fl.trend_sell /\ fl.break_up /\ fl.break_down}

_check_pain_buy(bias, fl, m1, s) ==
    bias = "BUY" /\ fl.trend_buy /\ fl.break_up /\ is_buy_signal(m1, s)

\* PAIN SELL ready on the higher timeframes alone.
_check_pain_sell_on_trend_alone(states, bias, fl, m1, s) ==
    ~is_halted(states, s) /\ fl.trend_sell /\ fl.break_down

_check_pain_sell(states, bias, fl, m1, s) ==
    ~is_halted(states, s) /\ bias = "SELL" /\ fl.trend_sell /\ fl.break_down
        /\ is_sell_signal(m1, s)

_check_gain_buy_without_structure(bias, fl, m1, s) ==
    bias = "BUY" /\ fl.trend_buy /\ is_buy_signal(m1, s)

_check_gain_buy(bias, fl, m1, s) ==
    bias = "BUY" /\ fl.structure_buy /\ fl.trend_buy /\ is_buy_signal(m1, s)

_check_gain_sell(bias, fl, m1, s) ==
    bias = "SELL" /\ fl.structure_sell /\ fl.trend_sell /\ is_sell_signal(m1, s)

\* Every bot of the symbol listed twice.
BotResultsRetried(states, bias, fl, m1, s) ==
    LET pain == <<[bot_type |-> "pain_buy", ready |-> _check_pain_buy(bias, fl, m1, s)],
                  [bot_type |-> "pain_sell",
                   ready |-> _check_pain_sell(states, bias, fl, m1, s)]>>
        gain == <<[bot_type |-> "gain_buy", ready |-> _check_gain_buy(bias, fl, m1, s)],
                  [bot_type |-> "gain_sell", ready |-> _check_gain_sell(bias, fl, m1, s)]>>
    IN  (IF is_pain_symbol(s) THEN pain \o pain ELSE << >>)
        \o (IF is_gain_symbol(s) THEN gain \o gain ELSE << >>)

\* process_symbol's 'bot_results', in the order the dict is filled.
BotResults(states, bias, fl, m1, s) ==
    (IF is_pain_symbol(s)
     THEN <<[bot_type |-> "pain_buy", ready |-> _check_pain_buy(bias, fl, m1, s)],
            [bot_type |-> "pain_sell", ready |-> _check_pain_sell(states, bias, fl, m1, s)]>>
     ELSE << >>)
    \o
    (IF is_gain_symbol(s)
     THEN <<[bot_type |-> "gain_buy", ready |-> _check_gain_buy(bias, fl, m1, s)],
            [bot_type |-> "gain_sell", ready |-> _check_gain_sell(bias, fl, m1, s)]>>
     ELSE << >>)

\* The M1 lists process_symbol is given: a single bar (too short for the
\* indicators), or Window bars ending in prev, curr.  The last bar is one of:
\* a range across the short EMA closing above, on or below it, or a flat bar
\* above or below it; the bar before closes below or above the short EMA.
TradeBars ==
    {[low |-> 0, high |-> 2, close |-> 2, purple |-> 1, snake |-> 0],
     [low |-> 0, high |-> 2, close |-> 1, purple |-> 1, snake |-> 0],
     [low |-> 0, high |-> 2, close |-> 0, purple |-> 1, snake |-> 3],
     [low |-> 2, high |-> 2, close |-> 2, purple |-> 1, snake |-> 0],
     [low |-> 0, high |-> 0, close |-> 0, purple |-> 1, snake |-> 3]}

PrevBars ==
    {[low |-> 0, high |-> 0, close |-> 0, purple |-> 1, snake |-> 0],
     [low |-> 2, high |-> 2, close |-> 2, purple |-> 1, snake |-> 0]}

M1Feeds ==
    {[len |-> 1, prev |-> NoBar, curr |-> q] : q \in {b \in TradeBars : b.low = 2}}
    \cup {[len |-> Window, prev |-> p, curr |-> q] : p \in PrevBars, q \in TradeBars}

\* ---------------------------------------------------------- RiskManager
GateNames == {"session", "symbol", "spread", "daily_profit", "daily_loss",
              "consecutive", "account"}

\* What the clock, the broker's symbol info and the account report to the gates.
CalmMarket == [in_session |-> TRUE, symbol_info |-> TRUE, spread_pips |-> 1,
               account_info |-> TRUE, equity |-> 1, margin_free |-> 1]

Markets == {CalmMarket,
            [CalmMarket EXCEPT !.in_session = FALSE],
            [CalmMarket EXCEPT !.symbol_info = FALSE],
            [CalmMarket EXCEPT !.spread_pips = 3],
            [CalmMarket EXCEPT !.account_info = FALSE],
            [CalmMarket EXCEPT !.margin_free = 0],
            [CalmMarket EXCEPT !.in_session = FALSE, !.spread_pips = 3]}

NewStats(current_day) ==
    [profit |-> 0, loss |-> 0, trade_count |-> 0, last_reset_day |-> current_day]

\* The entry created once and never reset.
_get_daily_stats_never_reset(stats, s, current_day) ==
    [x \in DOMAIN stats \cup {s} |->
        IF x # s THEN stats[x]
        ELSE IF s \notin DOMAIN stats THEN NewStats(current_day)
        ELSE stats[s]]

\* _get_daily_stats: creates the symbol's entry, resets it on a new trading day.
_get_daily_stats(stats, s, current_day) ==
    [x \in DOMAIN stats \cup {s} |->
        IF x # s THEN stats[x]
        ELSE IF s \notin DOMAIN stats THEN NewStats(current_day)
        ELSE IF stats[s].last_reset_day # current_day THEN NewStats(current_day)
        ELSE stats[s]]

record_trade_result(stats, s, profit_usd, current_day) ==
    LET st == _get_daily_stats(stats, s, current_day)
    IN  [st EXCEPT ![s].profit = IF profit_usd > 0 THEN @ + profit_usd ELSE @,
                   ![s].loss = IF profit_usd > 0 THEN @ ELSE @ + Abs(profit_usd),
                   ![s].trade_count = @ + 1]

_check_session_active(m) == ~session_enabled \/ m.in_session

_check_symbol_enabled(s) == \E i \in DOMAIN SymbolOrder : SymbolOrder[i] = s

_check_spread(m) == m.symbol_info /\ m.spread_pips <= max_spread_pips

_check_daily_profit(stats, s) ==
    ~enable_daily_target \/ ~(stats[s].profit >= daily_target_usd)

_check_daily_loss(stats, s) ==
    ~enable_daily_stop \/ ~(stats[s].loss >= daily_stop_usd)

\* connector.get_positions() returns every open position of the account.
_check_consecutive_orders(positions) == Cardinality(positions) < max_concurrent_orders

_check_account_health(m) == m.account_info /\ m.equity > 0 /\ m.margin_free > 0

\* The 'gates' dict of check_all_gates: gate -> allowed.  stats is daily_stats
\* after the _get_daily_stats calls of gates 4 and 5.
GateResults(m, stats, s, positions) ==
    [k \in GateNames |->
        CASE k = "session" -> _check_session_active(m)
          [] k = "symbol" -> _check_symbol_enabled(s)
          [] k = "spread" -> _check_spread(m)
          [] k = "daily_profit" -> _check_daily_profit(stats, s)
          [] k = "daily_loss" -> _check_daily_loss(stats, s)
          [] k = "consecutive" -> _check_consecutive_orders(positions)
          [] OTHER -> _check_account_health(m)]

check_all_gates_ignores_spread(gates) ==
    LET reasons == {k \in GateNames : ~gates[k]}
    IN  [allowed |-> reasons \ {"spread"} = {}, reasons |-> reasons]

check_all_gates(gates) ==
    LET reasons == {k \in GateNames : ~gates[k]}
    IN  [allowed |-> reasons = {}, reasons |-> reasons]

\* --------------------------------------------------------- OrderManager
IsBuyBot(bot_type) == bot_type \in {"pain_buy", "gain_buy"}

IndexOf(positions, bot_type) ==
    {i \in DOMAIN positions : positions[i].bot_type = bot_type}

has_open_position_never(op, s, bot_type) == FALSE

has_open_position(op, s, bot_type) == IndexOf(op[s], bot_type) # {}

\* self.open_positions[symbol][bot_type] = {...}: a new key goes last, an
\* existing key keeps its place.
Track(positions, rec) ==
    IF IndexOf(positions, rec.bot_type) = {}
    THEN Append(positions, rec)
    ELSE [i \in DOMAIN positions |->
            IF positions[i].bot_type = rec.bot_type THEN rec ELSE positions[i]]

\* del self.open_positions[symbol][bot_type]
Untrack(positions, bot_type) ==
    LET keep(r) == r.bot_type # bot_type IN SelectSeq(positions, keep)

Tickets(positions) == {p.ticket : p \in positions}

TrackedTickets(op) == UNION {{op[s][i].ticket : i \in DOMAIN op[s]} : s \in Symbols}

\* ---------------------------------------------------------- ExitManager
\* What get_bars_cached(symbol, 'M5', 20) and the M5 indicators give: no bars,
\* too few bars for a short EMA, or the latest close against the latest short EMA.
M5Inputs == {"none", "short", "below", "above", "level"}

Profits == {-50, 150}

\* The exit taken already when the M5 close is on the short EMA.
_check_m5_purple_break_on_touch(position, m5) ==
    /\ early_exit_on_m5_purple_break
    /\ \/ position.type = "BUY" /\ m5 \in {"below", "level"}
       \/ position.type = "SELL" /\ m5 \in {"above", "level"}

_check_m5_purple_break(position, m5) ==
    /\ early_exit_on_m5_purple_break
    /\ \/ position.type = "BUY" /\ m5 = "below"
       \/ position.type = "SELL" /\ m5 = "above"

\* The tracked positions of the symbol that get an exit signal, in dict order.
Signalled(positions, m5) ==
    LET sig(r) == _check_m5_purple_break(r, m5)
    IN  IF m5 \in {"none", "short"} THEN << >> ELSE SelectSeq(positions, sig)

\* check_exits over the symbol's dict.  n signalled positions are met whose
\* close fails at the broker (no tick, no result, rejected) and leaves the dict
\* alone; the next one is closed, or found already closed, and deleted from the
\* dict being iterated, so the loop's next step raises RuntimeError.
check_exits(positions, broker, m5, n, profit) ==
    LET sigs == Signalled(positions, m5)
    IN  IF n >= Len(sigs)
        THEN [raised |-> FALSE, exits |-> << >>, positions |-> positions, broker |-> broker]
        ELSE LET pos == sigs[n + 1]
             IN  [raised |-> TRUE,
                  exits |-> IF pos.ticket \in Tickets(broker)
                            THEN <<[bot_type |-> pos.bot_type, profit |-> profit]>>
                            ELSE << >>,
                  positions |-> Untrack(positions, pos.bot_type),
                  broker |-> {p \in broker : p.ticket # pos.ticket}]

RECURSIVE RecordExits(_, _, _, _)
\* The loop over exits of bot_engine_loop (lines 538-542).
RecordExits(stats, s, exits, current_day) ==
    IF exits = << >>
    THEN stats
    ELSE RecordExits(record_trade_result(stats, s, Head(exits).profit, current_day),
                     s, Tail(exits), current_day)

\* -------------------------------------------------------- bot_engine_loop
\* step: the symbol and bot the entry loop handled last, what it did, and the
\* gates that did not allow the trade.
NoStep == [symbol |-> "none", bot_type |-> "none", outcome |-> "none", failed_gates |-> {}]

StepOf(s, bot_type, outcome, failed) ==
    [symbol |-> s, bot_type |-> bot_type, outcome |-> outcome, failed_gates |-> failed]

\* Results of execute_buy / execute_sell: the first two return before
\* order_send, the others are what order_send gave.
ExecuteOutcomes == {"no_tick", "no_info", "no_result", "rejected", "done"}

SentOutcomes == {"no_result", "rejected", "done"}

Key(s, bot_type) == [symbol |-> s, bot_type |-> bot_type]

\* min(low of m1_bars[-10:]): the last bar is one of them.
RecentLows(f) == IF f.len = 1 THEN {f.curr.low} ELSE {p \in Prices : p <= f.curr.low}

\* The loop moves on to the next symbol, or the cycle ends.
Advance ==
    IF idx < Len(SymbolOrder)
    THEN pc' = "symbol" /\ idx' = idx + 1
    ELSE pc' = "sleep" /\ idx' = idx

\* Lines 449-460: fetch the M1 and D1 bars and run process_symbol.
ProcessSymbol ==
    /\ pc = "symbol"
    /\ LET s == SymbolOrder[idx]
           cached == s \in DOMAIN bias_cache /\ bias_cache[s].day = day
       IN  \E f \in M1Feeds, fl \in Filters, d1_bars \in (IF cached THEN {<< >>} ELSE D1Inputs) :
             LET b == get_bias(bias_cache, s, d1_bars, day)
             IN  \E current_low \in (IF b.bias = "SELL" THEN RecentLows(f) ELSE {f.curr.low}) :
                   LET states == DayStop(initialize_symbol(bot_states, s), b.cache, s,
                                         b.bias, b.level50x2, current_low)
                       m1 == M1Update(m1_states, s, f.len, f.prev, f.curr)
                   IN  /\ bot_states' = states
                       /\ bias_cache' = b.cache
                       /\ m1_states' = m1
                       /\ todo' = BotResults(states, b.bias, fl, m1, s)
                       /\ closed' = [closed EXCEPT ![s] = {}]
                       /\ ordered' = IF InReady(StateOf(m1, s))
                                         /\ StateOf(m1, s) = StateOf(m1_states, s)
                                      THEN ordered
                                      ELSE {k \in ordered : k.symbol # s}
    /\ pc' = "entry"
    /\ step' = NoStep
    /\ UNCHANGED <<idx, open_positions, mt5_positions, next_ticket, day, daily_stats,
                   cycle_entries, stale, m1_cache, cross_time, since_cross>>
    /\ UNCHANGED compvars

\* Lines 449-451: no M1 bars for the symbol, the loop continues with the next one.
SkipSymbol ==
    /\ pc = "symbol"
    /\ Advance
    /\ step' = NoStep
    /\ stale' = stale \ {open_positions[SymbolOrder[idx]][i].ticket :
                            i \in DOMAIN open_positions[SymbolOrder[idx]]}
    /\ UNCHANGED <<todo, open_positions, mt5_positions, next_ticket, bot_states, bias_cache,
                   day, daily_stats, cycle_entries, closed, ordered, m1vars>>
    /\ UNCHANGED compvars

\* Lines 463-531 for one item of bot_results.
Entry ==
    /\ pc = "entry"
    /\ LET s == SymbolOrder[idx]
           bot_type == Head(todo).bot_type
       IN  \/ /\ ~Head(todo).ready
              /\ step' = StepOf(s, bot_type, "not_ready", {})
              /\ UNCHANGED <<open_positions, mt5_positions, next_ticket, daily_stats,
                             cycle_entries>>
           \/ /\ Head(todo).ready
              /\ has_open_position(open_positions, s, bot_type)
              /\ step' = StepOf(s, bot_type, "in_position", {})
              /\ UNCHANGED <<open_positions, mt5_positions, next_ticket, daily_stats,
                             cycle_entries>>
           \/ /\ Head(todo).ready
              /\ ~has_open_position(open_positions, s, bot_type)
              /\ \E m \in Markets :
                   LET stats == _get_daily_stats(daily_stats, s, day)
                       gates == GateResults(m, stats, s, mt5_positions)
                       failed == {k \in GateNames : ~gates[k]}
                       risk_check == check_all_gates(gates)
                   IN  /\ daily_stats' = stats
                       /\ IF ~risk_check.allowed
                          THEN /\ step' = StepOf(s, bot_type, "blocked", failed)
                               /\ UNCHANGED <<open_positions, mt5_positions, next_ticket,
                                              cycle_entries>>
                          ELSE \E outcome \in ExecuteOutcomes :
                                 /\ outcome = "done" => next_ticket <= MaxTickets
                                 /\ step' = StepOf(s, bot_type, outcome, failed)
                                 /\ IF outcome = "done"
                                    THEN LET type == IF IsBuyBot(bot_type) THEN "BUY" ELSE "SELL"
                                         IN  /\ mt5_positions' = mt5_positions \cup
                                                  {[ticket |-> next_ticket, symbol |-> s,
                                                    comment |-> bot_type, type |-> type,
                                                    magic |-> magic]}
                                             /\ open_positions' =
                                                  [open_positions EXCEPT ![s] =
                                                     Track(@, [bot_type |-> bot_type,
                                                               ticket |-> next_ticket,
                                                               type |-> type])]
                                             /\ next_ticket' = next_ticket + 1
                                             /\ cycle_entries' =
                                                  cycle_entries \cup {Key(s, bot_type)}
                                    ELSE UNCHANGED <<open_positions, mt5_positions,
                                                     next_ticket, cycle_entries>>
    /\ ordered' = IF next_ticket' # next_ticket
                   THEN ordered \cup {Key(SymbolOrder[idx], Head(todo).bot_type)}
                   ELSE ordered
    /\ todo' = Tail(todo)
    /\ pc' = IF Tail(todo) = << >> THEN "exits" ELSE "entry"
    /\ UNCHANGED <<idx, bot_states, bias_cache, day, closed, stale, m1vars>>
    /\ UNCHANGED compvars

\* Lines 533-569: the exit check of the symbol.  A RuntimeError raised by
\* check_exits is caught at line 578: the rest of the cycle is skipped.
Exits ==
    /\ pc = "exits"
    /\ LET s == SymbolOrder[idx]
       IN  \E m5 \in M5Inputs, profit \in Profits :
             \E n \in 0..Len(Signalled(open_positions[s], m5)) :
               LET sigs == Signalled(open_positions[s], m5)
                   r == check_exits(open_positions[s], mt5_positions, m5, n, profit)
                   gone == {open_positions[s][i].bot_type : i \in DOMAIN open_positions[s]}
                             \ {r.positions[i].bot_type : i \in DOMAIN r.positions}
               IN  /\ \A i \in 1..n : sigs[i].ticket \in Tickets(mt5_positions)
                   /\ open_positions' = [open_positions EXCEPT ![s] = r.positions]
                   /\ mt5_positions' = r.broker
                   /\ cycle_entries' = cycle_entries \ {Key(s, b) : b \in gone}
                   /\ closed' = [closed EXCEPT ![s] = @ \cup gone]
                   /\ IF r.raised
                      THEN /\ pc' = "sleep_error"
                           /\ UNCHANGED <<idx, daily_stats>>
                      ELSE /\ daily_stats' = RecordExits(daily_stats, s, r.exits, day)
                           /\ Advance
    /\ step' = NoStep
    /\ UNCHANGED <<todo, next_ticket, bot_states, bias_cache, day, stale, ordered, m1vars>>
    /\ UNCHANGED compvars

\* asyncio.sleep(2) after a full pass (line 576), asyncio.sleep(5) after an
\* exception (line 582); then the next cycle starts with the first symbol.
Sleep ==
    /\ pc \in {"sleep", "sleep_error"}
    /\ pc' = "symbol"
    /\ idx' = 1
    /\ step' = NoStep
    /\ cycle_entries' = {}
    /\ stale' = TrackedTickets(open_positions) \ Tickets(mt5_positions)
    /\ UNCHANGED <<todo, open_positions, mt5_positions, next_ticket, bot_states, bias_cache,
                   day, daily_stats, closed, ordered, m1vars>>
    /\ UNCHANGED compvars

\* ----------------------------------------------------------- environment
\* The broker closes a position: take profit, stop loss, or by hand in the terminal.
ExternalClose ==
    \E p \in mt5_positions :
        /\ mt5_positions' = mt5_positions \ {p}
        /\ closed' = [s \in Symbols |->
                        closed[s] \cup {open_positions[s][i].bot_type :
                                          i \in {j \in DOMAIN open_positions[s] :
                                                   open_positions[s][j].ticket = p.ticket}}]
        /\ cycle_entries' = {e \in cycle_entries :
                               \A i \in DOMAIN open_positions[e.symbol] :
                                  open_positions[e.symbol][i].bot_type = e.bot_type
                                     => open_positions[e.symbol][i].ticket # p.ticket}
        /\ UNCHANGED <<pc, idx, todo, open_positions, next_ticket, bot_states, bias_cache,
                       day, daily_stats, step, stale, ordered, m1vars>>
        /\ UNCHANGED compvars

InitTrade ==
    /\ pc = "symbol"
    /\ idx = 1
    /\ todo = << >>
    /\ open_positions = [s \in Symbols |-> << >>]
    /\ mt5_positions = {}
    /\ next_ticket = 1
    /\ bot_states = [s \in {} |-> [b \in BotTypes |-> "idle"]]
    /\ bias_cache = [s \in {} |-> [bias |-> "NEUTRAL", level50x2 |-> {}, day |-> 0]]
    /\ day = 0
    /\ daily_stats = [s \in {} |-> NewStats(0)]
    /\ step = NoStep
    /\ cycle_entries = {}
    /\ closed = [s \in Symbols |-> {}]
    /\ stale = {}
    /\ ordered = {}

InitIdleM1 ==
    /\ m1_cache = [s \in Symbols |-> EmptyCache]
    /\ m1_states = [s \in {} |-> IdleState]
    /\ cross_time = [s \in Symbols |-> -1]
    /\ since_cross = [s \in Symbols |-> -1]

InitComponents ==
    /\ IdleResample /\ IdleCandle /\ IdleDaily /\ IdleStop /\ IdleEval /\ IdleClock
    /\ IdleEma /\ IdleM30 /\ IdleFetch /\ IdleCall

Init == InitIdleM1 /\ InitTrade /\ InitComponents

Next ==
    \/ ProcessSymbol
    \/ SkipSymbol
    \/ Entry
    \/ Exits
    \/ Sleep
    \/ ExternalClose

\* The engine as bot_engine_loop runs it, with the broker and the clock.
Spec == Init /\ [][Next]_vars

\* ------------------------------------------------- inbound messages
\* handle_client_message, command 'execute_trade' (lines 273-355): an order of
\* the symbol's minimum volume is sent to the broker at once.  The handler runs
\* where the loop is suspended: in a sleep, or in a broadcast after an entry or
\* after a symbol.  Its other commands change current_symbol and timeframe,
\* which the loop does not read, or only read.  ManualTrades: the messages sent.
ManualTrades == {[symbol |-> "PAINX", action |-> "buy"]}

ExecuteTrade ==
    /\ \/ pc \in {"symbol", "sleep", "sleep_error"}
       \/ pc \in {"entry", "exits"} /\ step.outcome = "done"
    /\ next_ticket <= MaxTickets
    /\ \E data \in ManualTrades :
          mt5_positions' = mt5_positions \cup
              {[ticket |-> next_ticket, symbol |-> data.symbol,
                comment |-> "Manual trade from dashboard",
                type |-> IF data.action = "buy" THEN "BUY" ELSE "SELL", magic |-> magic]}
    /\ next_ticket' = next_ticket + 1
    /\ UNCHANGED <<pc, idx, todo, open_positions, bot_states, bias_cache, day, daily_stats,
                   step, cycle_entries, closed, stale, ordered, m1vars>>
    /\ UNCHANGED compvars

NextServer == Next \/ ExecuteTrade

\* The engine loop together with the inbound-message handler of the same server.
SpecServer == Init /\ [][NextServer]_vars

\* ------------------------------------------- the M1 machine and its feed
\* BotEngine.process_symbol, lines 168-172, on the list bot_engine_loop fetched.
FeedM1(s) ==
    \E f \in get_bars_cached(m1_cache[s]) :
        /\ m1_cache' = [m1_cache EXCEPT ![s] = Store(f)]
        /\ m1_states' = M1Update(m1_states, s, f.len, f.prev, f.curr)
        /\ HistoryAfterUpdate(s, f, StateOf(m1_states, s), StateOf(m1_states', s))
        /\ UNCHANGED tradevars
        /\ UNCHANGED compvars

CallMarkExecuted(s) ==
    /\ m1_states' = M1MarkExecuted(m1_states, s)
    /\ cross_time' = [cross_time EXCEPT ![s] = -1]
    /\ since_cross' = [since_cross EXCEPT ![s] = -1]
    /\ UNCHANGED <<m1_cache, tradevars>>
    /\ UNCHANGED compvars

CallReset(s) ==
    /\ m1_states' = M1Reset(m1_states, s)
    /\ cross_time' = [cross_time EXCEPT ![s] = -1]
    /\ since_cross' = [since_cross EXCEPT ![s] = -1]
    /\ UNCHANGED <<m1_cache, tradevars>>
    /\ UNCHANGED compvars

InitM1 == InitIdleM1 /\ InitTrade /\ InitComponents

NextM1 ==
    \/ \E s \in PainSymbols : FeedM1(s)
    \/ \E s \in PainSymbols : CallMarkExecuted(s)
    \/ \E s \in PainSymbols : CallReset(s)

\* The M1StateMachine object driven through its methods, update() being fed the
\* list the orchestrator fetches each cycle.
SpecM1 == InitM1 /\ [][NextM1]_vars

\* ------------------------------------------------------------- M1 claims
\* C3: the machine enters READY_BUY only from CROSSED_UP and only on a bar with
\* low <= short EMA <= high, close >= short EMA and close >= long EMA; it
\* enters READY_SELL only from CROSSED_DOWN and only on a bar with
\* low <= short EMA <= high, close <= short EMA and close < long EMA.
C3_ReadyOnlyOnValidTouch ==
    [][\A s \in Symbols :
        LET old == StateOf(m1_states, s)
            new == StateOf(m1_states', s)
            bar == m1_cache'[s].curr
        IN  /\ (new = "ready_buy" /\ old # "ready_buy") =>
                  /\ old = "crossed_up"
                  /\ bar.low <= bar.purple /\ bar.purple <= bar.high
                  /\ bar.close >= bar.purple /\ bar.close >= bar.snake
            /\ (new = "ready_sell" /\ old # "ready_sell") =>
                  /\ old = "crossed_down"
                  /\ bar.low <= bar.purple /\ bar.purple <= bar.high
                  /\ bar.close <= bar.purple /\ bar.close < bar.snake]_vars

\* A READY state of either side has been entered on a fetched bar list.
C3_Witness ==
    /\ StateOf(m1_states, "PAINX") = "ready_sell"
    /\ m1_cache["PAINX"].len = Window

\* C4: once more than max_bars_between M1 bars have arrived after the cross bar
\* and none of them touched the short EMA, the machine is no longer waiting in
\* CROSSED_UP / CROSSED_DOWN (it has returned to IDLE).
C4_GapExpires ==
    \A s \in Symbols :
        InCrossed(StateOf(m1_states, s)) => since_cross[s] <= max_bars_between

\* C5: the bar on which READY is entered started strictly later than the bar on
\* which the cross was recorded.
C5_TouchAfterCross ==
    [][\A s \in Symbols :
        (InReady(StateOf(m1_states', s)) /\ ~InReady(StateOf(m1_states, s)))
            => m1_cache'[s].time > cross_time[s]]_vars

\* C6: in READY_BUY, READY_SELL and EXECUTED no update(), whatever the bars,
\* changes the state dict; READY is left only by mark_executed() (to EXECUTED)
\* or reset() (to IDLE), and EXECUTED only by reset() (to IDLE).
C6_ReadyHeld ==
    /\ [](\A s \in Symbols :
            (InReady(StateOf(m1_states, s)) \/ StateOf(m1_states, s) = "executed") =>
                \A len \in 0..Window, p \in Bars, c \in Bars :
                    M1Update(m1_states, s, len, p, c) = m1_states)
    /\ [][\A s \in Symbols :
            LET old == StateOf(m1_states, s)
                new == StateOf(m1_states', s)
            IN  /\ (InReady(old) /\ new # old) =>
                      \/ new = "executed" /\ m1_states' = M1MarkExecuted(m1_states, s)
                      \/ new = "idle" /\ m1_states' = M1Reset(m1_states, s)
                /\ (old = "executed" /\ new # old) =>
                      new = "idle" /\ m1_states' = M1Reset(m1_states, s)]_vars

\* update() has been called on a longer bar list after READY was entered.
C6_Witness ==
    /\ InReady(StateOf(m1_states, "PAINX"))
    /\ m1_cache["PAINX"].len - 1 > m1_states["PAINX"].ready_bar_index

\* ---------------------------------------------------------- trade claims
HeldStates == {"ready_buy", "ready_sell", "executed"}

C10_HaltedBlocksPainSell ==
    /\ [](\A s \in DOMAIN bot_states :
            bot_states[s]["pain_sell"] = "halted" =>
                /\ (pc = "entry" /\ SymbolOrder[idx] = s) =>
                      \A i \in DOMAIN todo :
                          todo[i].bot_type = "pain_sell" => ~todo[i].ready
                /\ (step.symbol = s /\ step.bot_type = "pain_sell") =>
                      step.outcome = "not_ready")
    /\ [][\A s \in DOMAIN bot_states :
            bot_states[s]["pain_sell"] = "halted" => bot_states'[s]["pain_sell"] = "halted"]_vars

\* PAIN-SELL was evaluated on a SELL day with the M1 sell signal up, while HALTED.
C10_Witness ==
    /\ pc = "entry"
    /\ SymbolOrder[idx] = "PAINX"
    /\ Len(todo) = 2
    /\ bot_states["PAINX"]["pain_sell"] = "halted"
    /\ is_sell_signal(m1_states, "PAINX")
    /\ bias_cache["PAINX"].bias = "SELL"

\* C23: a failure while one symbol is processed skips that symbol only: when the
\* cycle ends, normally or after an exception, the loop has gone through every
\* configured symbol.
C23_FailureSkipsOneSymbol ==
    pc \in {"sleep", "sleep_error"} => idx = Len(SymbolOrder)

\* C24: the inbound-message handler leaves the orchestrator's state alone (a
\* step that adds a broker position without moving the loop changes none of the
\* tracked positions, bot states, M1 states, bar cache, bias cache and daily
\* aggregates), and every broker position with the engine's tag was opened by
\* the gated entry path, which names the bot in the order's comment.
C24_HandlerLeavesTradingToLoop ==
    /\ [](\A p \in mt5_positions : p.magic = magic => p.comment \in BotTypes)
    /\ [][(pc' = pc /\ todo' = todo /\ mt5_positions' # mt5_positions
              /\ mt5_positions \subseteq mt5_positions')
            => UNCHANGED <<open_positions, bot_states, m1vars, bias_cache, daily_stats>>]_vars

MaxMinute == 6
\* Longest M1 list given to the resampler.
MaxM1 == 5

TIMEFRAMES == [M1 |-> 1, M5 |-> 5, M15 |-> 15, M30 |-> 30, H1 |-> 60, H4 |-> 240,
               D1 |-> 1440]

\* The targets resample_all_timeframes asks for that complete, or not, within MaxMinute.
TargetTimeframes == {"M5", "M15"}

\* Prices and volume of an M1 bar.
M1Shapes == {[open |-> 1, high |-> 2, low |-> 0, close |-> 1, volume |-> 1],
             [open |-> 2, high |-> 3, low |-> 2, close |-> 3, volume |-> 2]}

M1Bar(t, sh) == [time |-> t, open |-> sh.open, high |-> sh.high, low |-> sh.low,
                 close |-> sh.close, volume |-> sh.volume]

\* An instant is a number of minutes; day 0 starts at minute 0.
DateOf(dt) == dt \div 1440

HourOf(dt) == (dt % 1440) \div 60

MinuteOf(dt) == dt % 60

\* The key's text as the pair it is formatted from; D1 keys carry no start minute.
_get_bar_key(dt, tf_minutes) ==
    IF tf_minutes = 1440
    THEN [date |-> IF HourOf(dt) < 16 THEN DateOf(dt) - 1 ELSE DateOf(dt), start |-> -1]
    ELSE LET total_minutes == HourOf(dt) * 60 + MinuteOf(dt)
             bar_index == total_minutes \div tf_minutes
         IN  [date |-> DateOf(dt), start |-> bar_index * tf_minutes]

_finalize_bar(bar) ==
    [time |-> bar.time, open |-> bar.open, high |-> bar.high, low |-> bar.low,
     close |-> bar.close, volume |-> bar.volume]

\* Lines 85-93.
StartBar(m1, bar_key) ==
    [key |-> bar_key, time |-> m1.time, open |-> m1.open, high |-> m1.high,
     low |-> m1.low, close |-> m1.close, volume |-> m1.volume]

\* Lines 96-100 without line 98: the close of the bucket's first M1 bar is kept.
UpdateBarKeepsClose(current_bar, m1) ==
    [current_bar EXCEPT !.high = Max2(@, m1.high), !.low = Min2(@, m1.low),
                        !.volume = @ + m1.volume, !.time = m1.time]

\* Lines 96-100.
UpdateBar(current_bar, m1) ==
    [current_bar EXCEPT !.high = Max2(@, m1.high), !.low = Min2(@, m1.low),
                        !.close = m1.close, !.volume = @ + m1.volume,
                        !.time = m1.time]

\* Finalizing the bar under construction, << >> being None.
Flushed(out, current) ==
    IF current = << >> THEN out ELSE Append(out, _finalize_bar(current[1]))

\* The loop of lines 61-100 from the i-th M1 bar on.
RECURSIVE ResampleLoop(_, _, _, _, _)
ResampleLoop(bars, tf_minutes, i, current, out) ==
    IF i > Len(bars)
    THEN Flushed(out, current)
    ELSE LET m1 == bars[i]
             bar_key == _get_bar_key(m1.time, tf_minutes)
         IN  IF current = << >> \/ current[1].key # bar_key
             THEN ResampleLoop(bars, tf_minutes, i + 1, <<StartBar(m1, bar_key)>>,
                               Flushed(out, current))
             ELSE ResampleLoop(bars, tf_minutes, i + 1, <<UpdateBar(current[1], m1)>>, out)

resample_m1_to_timeframe(bars, tf) ==
    IF bars = << >> \/ tf \notin DOMAIN TIMEFRAMES
    THEN << >>
    ELSE IF tf = "M1"
    THEN bars
    ELSE ResampleLoop(bars, TIMEFRAMES[tf], 1, << >>, << >>)

InitResample ==
    /\ m1_bars = << >>
    /\ target_tf \in TargetTimeframes
    /\ resampled = << >>
    /\ InitIdleM1 /\ InitTrade /\ IdleEma /\ IdleM30 /\ IdleFetch /\ IdleCall
    /\ IdleCandle /\ IdleDaily /\ IdleStop /\ IdleEval /\ IdleClock

\* One more M1 bar has closed and the list is resampled again, as process_symbol
\* does on every call (bot_engine.py:138).
AppendM1 ==
    /\ Len(m1_bars) < MaxM1
    /\ \E t \in 0..MaxMinute, sh \in M1Shapes :
          /\ t > (IF m1_bars = << >> THEN -1 ELSE m1_bars[Len(m1_bars)].time)
          /\ m1_bars' = Append(m1_bars, M1Bar(t, sh))
    /\ resampled' = resample_m1_to_timeframe(m1_bars', target_tf)
    /\ UNCHANGED <<target_tf, m1vars, tradevars, emavars, m30vars, fetchvars, callvars, candvars, dailyvars, stopvars, evalvars,
                   clockvars>>

NextResample == AppendM1

SpecResample == InitResample /\ [][NextResample]_vars

\* C12: every bar the resampler has emitted belongs to a bucket that is over: the
\* input holds an M1 bar that starts at or after the bucket's right edge.
C12_NoPartialBar ==
    \A i \in DOMAIN resampled :
        LET tf_minutes == TIMEFRAMES[target_tf]
            right_edge == (resampled[i].time \div tf_minutes) * tf_minutes + tf_minutes
        IN  \E j \in DOMAIN m1_bars : m1_bars[j].time >= right_edge

\* C13: when later M1 bars are added to the input, the bars already emitted stay
\* as they were: the old output is a prefix of the new one.
C13_EmittedBarsFinal ==
    [][/\ Len(resampled) <= Len(resampled')
       /\ \A i \in DOMAIN resampled : resampled'[i] = resampled[i]]_vars

\* The M1 bars of the input that fall in the bucket of the i-th emitted bar.
BucketOf(i) ==
    {j \in DOMAIN m1_bars :
        _get_bar_key(m1_bars[j].time, TIMEFRAMES[target_tf])
            = _get_bar_key(resampled[i].time, TIMEFRAMES[target_tf])}

FirstOf(S) == CHOOSE j \in S : \A k \in S : j <= k

LastOf(S) == CHOOSE j \in S : \A k \in S : k <= j

RECURSIVE SumVolume(_, _, _)
SumVolume(bars, from, to) ==
    IF from > to THEN 0 ELSE bars[from].volume + SumVolume(bars, from + 1, to)

\* C22: every emitted bar aggregates the M1 bars b1..bn of its bucket: open is
\* b1's open, close is bn's close, high the largest high, low the smallest low,
\* volume the sum of the volumes; each bucket of the input gives one bar.
C22_BarAggregatesBucket ==
    /\ \A i \in DOMAIN resampled :
          LET mem == BucketOf(i)
          IN  /\ mem # {}
              /\ resampled[i].open = m1_bars[FirstOf(mem)].open
              /\ resampled[i].close = m1_bars[LastOf(mem)].close
              /\ \E j \in mem : resampled[i].high = m1_bars[j].high
              /\ \A j \in mem : m1_bars[j].high <= resampled[i].high
              /\ \E j \in mem : resampled[i].low = m1_bars[j].low
              /\ \A j \in mem : resampled[i].low <= m1_bars[j].low
              /\ resampled[i].volume = SumVolume(m1_bars, FirstOf(mem), LastOf(mem))
    /\ Len(resampled) =
          Cardinality({_get_bar_key(m1_bars[j].time, TIMEFRAMES[target_tf]) :
                          j \in DOMAIN m1_bars})

\* A bar was emitted for a bucket of three M1 bars of both shapes, the first
\* and the last of them differing in open and close.
C22_Witness ==
    \E i \in DOMAIN resampled :
        /\ Cardinality(BucketOf(i)) = 3
        /\ m1_bars[FirstOf(BucketOf(i))].close # m1_bars[LastOf(BucketOf(i))].close
        /\ resampled[i].high = 3
        /\ resampled[i].low = 0

\* C30: the time of every emitted bar is the left edge of its bucket.
C30_TimeIsLeftEdge ==
    \A i \in DOMAIN resampled :
        LET tf_minutes == TIMEFRAMES[target_tf]
        IN  resampled[i].time = (m1_bars[FirstOf(BucketOf(i))].time \div tf_minutes) * tf_minutes

\* =============================================================== day stop
\* Bars whose lows process_symbol takes the minimum of (m1_bars[-10:] in the source).
RecentBars == 2
\* M1 bars of the trading day that are modelled.
MaxDayBars == 4

SellCandle == [open |-> 2, high |-> 2, low |-> 0, close |-> 2]

\* bias_cache once get_bias has computed the bias of a SELL day for PAINX.
SellDayCache == get_bias(<< >>, "PAINX", <<SellCandle>>, 0).cache

RECURSIVE MinLow(_, _, _)
MinLow(lows, from, to) ==
    IF from = to THEN lows[to] ELSE Min2(lows[from], MinLow(lows, from + 1, to))

\* min([bar['low'] for bar in m1_bars[-10:]]) if m1_bars else 0
current_low_of(lows) ==
    IF lows = << >> THEN 0
    ELSE MinLow(lows, Max2(1, Len(lows) - RecentBars + 1), Len(lows))

InitDayStop ==
    /\ day_lows = << >>
    /\ stop_states = << >>
    /\ stop_seen = -1
    /\ stop_day = 0
    /\ stop_cache = SellDayCache
    /\ InitIdleM1 /\ InitTrade /\ IdleEma /\ IdleM30 /\ IdleFetch /\ IdleCall
    /\ IdleResample /\ IdleCandle /\ IdleDaily /\ IdleEval /\ IdleClock

\* An M1 bar of the trading day closes; the engine may or may not be running.
NewM1Bar ==
    /\ Len(day_lows) < MaxDayBars
    /\ \E low \in Prices : day_lows' = Append(day_lows, low)
    /\ UNCHANGED <<stop_states, stop_seen, stop_day, stop_cache, m1vars, tradevars, emavars, m30vars, fetchvars, callvars, resvars, candvars, dailyvars,
                   evalvars, clockvars>>

\* process_symbol, lines 135 and 145-157, given the M1 bars of the day so far;
\* the first day is a SELL day whose bias is cached already.
ProcessDayStop ==
    /\ day_lows # << >>
    /\ \E d1_bars \in (IF "PAINX" \in DOMAIN stop_cache /\ stop_cache["PAINX"].day = stop_day
                         THEN {<< >>} ELSE D1Inputs) :
          LET b == get_bias(stop_cache, "PAINX", d1_bars, stop_day)
          IN  /\ stop_states' = DayStop(initialize_symbol(stop_states, "PAINX"), b.cache,
                                        "PAINX", b.bias, b.level50x2, current_low_of(day_lows))
              /\ stop_cache' = b.cache
    /\ stop_seen' = Len(day_lows)
    /\ UNCHANGED <<day_lows, stop_day, m1vars, tradevars, emavars, m30vars, fetchvars, callvars, resvars, candvars, dailyvars, evalvars,
                   clockvars>>

NextDayStop == NewM1Bar \/ ProcessDayStop

SpecDayStop == InitDayStop /\ [][NextDayStop]_vars

\* Trading days the day stop is followed over: 0..MaxStopDay.
MaxStopDay == 1

\* The daily boundary is crossed: get_current_trading_day() gives the next day
\* and the M1 bars of the new day start to arrive.
StopDayBoundary ==
    /\ stop_day < MaxStopDay
    /\ stop_seen # -1
    /\ stop_day' = stop_day + 1
    /\ day_lows' = << >>
    /\ stop_seen' = -1
    /\ UNCHANGED <<stop_states, stop_cache, m1vars, tradevars, emavars, m30vars, fetchvars, callvars,
                   resvars, candvars, dailyvars, evalvars, clockvars>>

NextHalt == NewM1Bar \/ ProcessDayStop \/ StopDayBoundary

\* The day stop over consecutive trading days.
SpecHalt == InitDayStop /\ [][NextHalt]_vars

\* C27: in the first cycle of a trading day, PAIN-SELL is HALTED after
\* process_symbol only if the day-stop predicate holds for that day's bias and
\* level50: a halt of the day before does not carry over.
C27_HaltEndsWithTheDay ==
    [][(stop_seen = -1 /\ stop_seen' # -1)
          => (is_halted(stop_states', "PAINX")
                => is_day_stop_triggered(stop_cache', "PAINX", current_low_of(day_lows)))]_vars

\* C11: on a SELL day, after process_symbol has been given the M1 bars of the day,
\* PAIN-SELL is HALTED if any of those bars has low <= level50.
C11_RunningLowHalts ==
    (stop_seen = Len(day_lows) /\ stop_seen > 0)
        => ((\E i \in DOMAIN day_lows :
                \A v \in SellDayCache["PAINX"].level50x2 : 2 * day_lows[i] <= v)
              => stop_states["PAINX"]["pain_sell"] = "halted")

\* ============================================================ closed bars
\* C14: the last bar update() is given is closed (its right edge is at or before
\* the current time), so it is final: whenever a later call is given a list
\* whose last bar starts at the same minute, that bar has the same prices.
\* Lists too short for update() to look at their last bar are left aside.
C14_EvaluatedBarsClosed ==
    [][\A s \in Symbols :
          (m1_cache[s].len >= Max2(2, snake_period)
              /\ m1_cache'[s].time = m1_cache[s].time)
            => /\ m1_cache'[s].curr.low = m1_cache[s].curr.low
               /\ m1_cache'[s].curr.high = m1_cache[s].curr.high
               /\ m1_cache'[s].curr.close = m1_cache[s].curr.close]_vars

\* ============================================================ compute_bias
\* Daily candles with prices 0..MaxPrice.
MaxPrice == 4

\* o=1.1000, h=1.1050, l=1.0800, c=1.1010 in units of 0.0001 above 1.0800.
LongLowerWickCandle == [open |-> 200, high |-> 250, low |-> 0, close |-> 210]

CandleGrid ==
    {c \in [open : 0..MaxPrice, high : 0..MaxPrice, low : 0..MaxPrice, close : 0..MaxPrice] :
        c.low <= Min2(c.open, c.close) /\ c.high >= Max2(c.open, c.close)}
    \cup {LongLowerWickCandle}

InitCandle ==
    /\ yesterday_candle \in CandleGrid
    /\ bias_result = NoBias
    /\ InitIdleM1 /\ InitTrade /\ IdleEma /\ IdleM30 /\ IdleFetch /\ IdleCall
    /\ IdleResample /\ IdleDaily /\ IdleStop /\ IdleEval /\ IdleClock

\* The first get_bias call for a symbol: d1_bars is too short, or d1_bars[-2] is
\* the candle.
GetBiasOnce ==
    /\ bias_result = NoBias
    /\ \E d1_bars \in {<< >>, <<yesterday_candle>>} :
          bias_result' = get_bias(<< >>, "PAINX", d1_bars, 0)
    /\ UNCHANGED <<yesterday_candle, m1vars, tradevars, emavars, m30vars, fetchvars, callvars, resvars, dailyvars, stopvars,
                   evalvars, clockvars>>

NextCandle == GetBiasOnce

SpecCandle == InitCandle /\ [][NextCandle]_vars

\* C15: the bias computed from a daily candle is NEUTRAL if the longer wick is not
\* longer than the body, else BUY if the lower wick exceeds the upper by the
\* tolerance, else SELL if the upper exceeds the lower by the tolerance, else NEUTRAL.
C15_BiasRule ==
    bias_result.cache # << >> =>
        LET c == yesterday_candle
            body == Abs(c.close - c.open)
            upper == c.high - Max2(c.open, c.close)
            lower == Min2(c.open, c.close) - c.low
        IN  bias_result.bias =
              (IF Max2(upper, lower) <= body THEN "NEUTRAL"
               ELSE IF lower * 100 > upper * (100 + epsilon_pct) THEN "BUY"
               ELSE IF upper * 100 > lower * (100 + epsilon_pct) THEN "SELL"
               ELSE "NEUTRAL")

\* C16: compute_bias gives BUY, SELL or NEUTRAL, with a level50 exactly when it gives
\* SELL; so do the value get_bias returns (the insufficient-data one included)
\* and every entry it caches.
C16_Level50IffSell ==
    /\ LET r == compute_bias(yesterday_candle)
       IN  r.bias \in {"BUY", "SELL", "NEUTRAL"} /\ (r.level50x2 # {} <=> r.bias = "SELL")
    /\ bias_result # NoBias =>
          /\ bias_result.bias \in {"BUY", "SELL", "NEUTRAL"}
          /\ bias_result.level50x2 # {} <=> bias_result.bias = "SELL"
          /\ \A s \in DOMAIN bias_result.cache :
                /\ bias_result.cache[s].bias \in {"BUY", "SELL", "NEUTRAL"}
                /\ bias_result.cache[s].level50x2 # {} <=> bias_result.cache[s].bias = "SELL"

C16_Witness ==
    /\ bias_result.bias = "SELL"
    /\ "PAINX" \in DOMAIN bias_result.cache
    /\ bias_result.cache["PAINX"].level50x2 # {}

\* ============================================================== bias cache
\* Trading days modelled: 1..MaxDays.
MaxDays == 3
\* D1 bars in the list bot_engine_loop asks for (10 in the source).
D1Window == 3

D1Bar(d, c) == [day |-> d, candle |-> c]

\* The last D1Window bars of a list.
LastBars(bars) ==
    IF Len(bars) <= D1Window THEN bars
    ELSE SubSeq(bars, Len(bars) - D1Window + 1, Len(bars))

\* What get_bias reads of a D1 list: nothing if it has fewer than two bars, else
\* the candle of d1_bars[-2].
BiasInput(bars) == IF Len(bars) < 2 THEN << >> ELSE <<bars[Len(bars) - 1].candle>>

CachedFor(cache, s, current_day) == s \in DOMAIN cache /\ cache[s].day = current_day

\* During trading day 1 the list ends with the bar of day 1, still forming,
\* after the closed bar of day 0; a symbol new at the broker has one bar only.
InitDaily ==
    /\ trading_day = 1
    /\ d1_list \in {<<D1Bar(1, c)>> : c \in Candles}
                     \cup {<<D1Bar(0, c), D1Bar(1, e)>> : c \in Candles, e \in Candles}
    /\ svc_cache = << >>
    /\ used_day = -1
    /\ returned = NoReturn
    /\ InitIdleM1 /\ InitTrade /\ IdleEma /\ IdleM30 /\ IdleFetch /\ IdleCall
    /\ IdleResample /\ IdleCandle /\ IdleStop /\ IdleEval /\ IdleClock

\* The clock passes the daily close hour.
CrossBoundary ==
    /\ trading_day < MaxDays
    /\ trading_day' = trading_day + 1
    /\ UNCHANGED <<d1_list, svc_cache, used_day, returned, m1vars, tradevars, emavars, m30vars, fetchvars, callvars, resvars,
                   candvars, stopvars, evalvars, clockvars>>

\* get_bars_cached(symbol, 'D1', 10) returns a list with the bar of the trading
\* day that has begun: the 60 s cache has expired and the broker has the bar.
NewD1Bar ==
    /\ d1_list[Len(d1_list)].day < trading_day
    /\ \E c \in Candles : d1_list' = LastBars(Append(d1_list, D1Bar(trading_day, c)))
    /\ UNCHANGED <<trading_day, svc_cache, used_day, returned, m1vars, tradevars, emavars, m30vars, fetchvars, callvars, resvars,
                   candvars, stopvars, evalvars, clockvars>>

\* process_symbol, lines 146-149.
GetBias ==
    /\ LET arg == BiasInput(d1_list)
           hit == CachedFor(svc_cache, "PAINX", trading_day)
           r == get_bias(svc_cache, "PAINX", arg, trading_day)
       IN  /\ svc_cache' = r.cache
           /\ returned' = [bias |-> r.bias, level50x2 |-> r.level50x2, hit |-> hit,
                           arg |-> arg]
           /\ used_day' = IF ~hit /\ arg # << >> THEN d1_list[Len(d1_list) - 1].day
                          ELSE used_day
    /\ UNCHANGED <<trading_day, d1_list, m1vars, tradevars, emavars, m30vars, fetchvars, callvars, resvars, candvars, stopvars,
                   evalvars, clockvars>>

NextDaily == CrossBoundary \/ NewD1Bar \/ GetBias

SpecDaily == InitDaily /\ [][NextDaily]_vars

\* C17: the bias cached for the current trading day d was computed from the D1
\* candle of day d-1.
C17_BiasFromYesterday ==
    CachedFor(svc_cache, "PAINX", trading_day) => used_day = trading_day - 1

\* C18: once the bias of the trading day is cached, get_bias returns the cached
\* bias and level50 whatever D1 bars it is given, and the cache entry does not change
\* during that day; when the cache holds no entry of the current trading day,
\* get_bias computes the bias from the D1 bars it is given.
C18_CachedForTheDay ==
    /\ [](\A d1 \in D1Inputs :
            LET r == get_bias(svc_cache, "PAINX", d1, trading_day)
            IN  IF CachedFor(svc_cache, "PAINX", trading_day)
                THEN /\ r.bias = svc_cache["PAINX"].bias
                     /\ r.level50x2 = svc_cache["PAINX"].level50x2
                ELSE d1 # << >> =>
                       /\ r.bias = compute_bias(d1[1]).bias
                       /\ r.level50x2 = compute_bias(d1[1]).level50x2
                       /\ CachedFor(r.cache, "PAINX", trading_day))
    /\ [][(CachedFor(svc_cache, "PAINX", trading_day) /\ trading_day' = trading_day)
            => /\ svc_cache' = svc_cache
               /\ returned' # returned =>
                    /\ returned'.bias = svc_cache["PAINX"].bias
                    /\ returned'.level50x2 = svc_cache["PAINX"].level50x2]_vars

\* A call answered from the cache although the list it was given holds another
\* bias, after the daily boundary had been crossed at least once.
C18_Witness ==
    /\ trading_day > 1
    /\ returned.hit
    /\ returned.arg # << >>
    /\ compute_bias(returned.arg[1]).bias # returned.bias

\* =============================================================== evaluator
M1StateNames == {"idle", "crossed_up", "crossed_down", "ready_buy", "ready_sell", "executed"}

\* What the four checks read once process_symbol has updated its services.
EvalInputs == [symbol : Symbols, bias : {"BUY", "SELL", "NEUTRAL"}, fl : AllFilters,
               m1 : M1StateNames, halted : BOOLEAN]

\* bot_states and m1_state.states holding the input's PAIN-SELL state and M1 state.
EvalBotStates(in) ==
    [s \in {in.symbol} |->
        [b \in BotTypes |-> IF b = "pain_sell" /\ in.halted THEN "halted" ELSE "idle"]]

EvalM1States(in) == [s \in {in.symbol} |-> [IdleState EXCEPT !.state = in.m1]]

InitEval ==
    /\ eval_in \in EvalInputs
    /\ eval_out = << >>
    /\ InitIdleM1 /\ InitTrade /\ IdleEma /\ IdleM30 /\ IdleFetch /\ IdleCall
    /\ IdleResample /\ IdleCandle /\ IdleDaily /\ IdleStop /\ IdleClock

\* process_symbol, lines 174-199.
Evaluate ==
    /\ eval_out = << >>
    /\ eval_out' = BotResults(EvalBotStates(eval_in), eval_in.bias, eval_in.fl,
                              EvalM1States(eval_in), eval_in.symbol)
    /\ UNCHANGED <<eval_in, m1vars, tradevars, emavars, m30vars, fetchvars, callvars, resvars, candvars, dailyvars, stopvars,
                   clockvars>>

NextEval == Evaluate

SpecEval == InitEval /\ [][NextEval]_vars

\* C19: the bots evaluated are the PAIN pair for a pain symbol and the GAIN pair
\* for a gain symbol, and each ready flag is the conjunction of the bot's rows of
\* the table: bias, trend colour, M30 break (PAIN), structure (GAIN), M1 trigger,
\* and not HALTED (PAIN-SELL).
C19_ReadyIsConjunction ==
    eval_out # << >> =>
        LET in == eval_in
            buy == in.bias = "BUY" /\ in.fl.trend_buy /\ in.m1 = "ready_buy"
            sell == in.bias = "SELL" /\ in.fl.trend_sell /\ in.m1 = "ready_sell"
            row == [pain_buy |-> buy /\ in.fl.break_up,
                    pain_sell |-> sell /\ in.fl.break_down /\ ~in.halted,
                    gain_buy |-> buy /\ in.fl.structure_buy,
                    gain_sell |-> sell /\ in.fl.structure_sell]
        IN  /\ {eval_out[k].bot_type : k \in DOMAIN eval_out} =
                  (IF in.symbol \in PainSymbols THEN {"pain_buy", "pain_sell"} ELSE {})
                  \cup (IF in.symbol \in GainSymbols THEN {"gain_buy", "gain_sell"} ELSE {})
            /\ \A k \in DOMAIN eval_out : eval_out[k].ready = row[eval_out[k].bot_type]

C19_Witness ==
    \E k \in DOMAIN eval_out : eval_out[k].bot_type = "gain_buy" /\ eval_out[k].ready

\* ========================================================= timezone anchor
\* Calendar dates modelled: 0..MaxDate.
MaxDate == 2

\* TimezoneHandler(daily_close_hour=16)
daily_close_hour == 16

\* Local instants around midnight and around the daily close hour.
Instants == [date : 0..MaxDate, hour : {0, 15, 16, 17, 23}, minute : {0, 59}]

get_current_trading_day_by_calendar(ref) == ref.date

\* ref is the instant in the anchor's zone (the result of to_local).
get_current_trading_day(ref) ==
    IF ref.hour < daily_close_hour THEN ref.date - 1 ELSE ref.date

is_daily_boundary_crossed(time1, time2) ==
    get_current_trading_day(time1) # get_current_trading_day(time2)

InitClock ==
    /\ ref_time \in Instants \X Instants
    /\ ref_out = << >>
    /\ InitIdleM1 /\ InitTrade /\ IdleEma /\ IdleM30 /\ IdleFetch /\ IdleCall
    /\ IdleResample /\ IdleCandle /\ IdleDaily /\ IdleStop /\ IdleEval

CallAnchor ==
    /\ ref_out = << >>
    /\ ref_out' = <<[day1 |-> get_current_trading_day(ref_time[1]),
                     day2 |-> get_current_trading_day(ref_time[2]),
                     crossed |-> is_daily_boundary_crossed(ref_time[1], ref_time[2])]>>
    /\ UNCHANGED <<ref_time, m1vars, tradevars, emavars, m30vars, fetchvars, callvars, resvars, candvars, dailyvars, stopvars,
                   evalvars>>

NextClock == CallAnchor

SpecClock == InitClock /\ [][NextClock]_vars

\* C20: the trading day of an instant before the daily close hour is the previous
\* calendar date, of an instant at or after it the same date; the boundary is
\* crossed between two instants exactly when their trading days differ.
C20_TradingDay ==
    ref_out # << >> =>
        LET t1 == ref_time[1]
            t2 == ref_time[2]
            r == ref_out[1]
        IN  /\ t1.hour * 60 + t1.minute < 16 * 60 => r.day1 = t1.date - 1
            /\ t1.hour * 60 + t1.minute >= 16 * 60 => r.day1 = t1.date
            /\ t2.hour * 60 + t2.minute < 16 * 60 => r.day2 = t2.date - 1
            /\ t2.hour * 60 + t2.minute >= 16 * 60 => r.day2 = t2.date
            /\ r.crossed <=> r.day1 # r.day2

\* 15:59 and 16:00 of the same date.
C20_Witness ==
    /\ ref_out # << >>
    /\ ref_time[1] = [date |-> 1, hour |-> 15, minute |-> 59]
    /\ ref_time[2] = [date |-> 1, hour |-> 16, minute |-> 0]
    /\ ref_out[1].day1 = 0 /\ ref_out[1].day2 = 1 /\ ref_out[1].crossed
\* ==================================================================== EMA
\* Longest price list given to calculate_ema.
MaxEmaLen == 4

EmaPrices == {0, 1, 2}

EmaPeriods == {2, 3}

\* The smoothing values test_ema_smoothing.py configures.
Smoothings == {1, 2, 3}

EmaInputs ==
    [prices : UNION {[1..n -> EmaPrices] : n \in 0..MaxEmaLen},
     period : EmaPeriods, smoothing : Smoothings]

\* IndicatorCalculator.__init__ has the two periods as parameters; a smoothing
\* given by the caller has no parameter to bind to and is not kept.
IndicatorCalculator(snake, purple, smoothing) ==
    [snake_period |-> snake, purple_period |-> purple]

\* An EMA value is the exact fraction num/den; NaN marks the leading values.
NaN == [nan |-> TRUE, num |-> 0, den |-> 1]

RECURSIVE SumPrices(_, _)
SumPrices(prices, n) == IF n = 0 THEN 0 ELSE prices[n] + SumPrices(prices, n - 1)

\* Lines 67-68 from index i on (1-based), k = k_num / (period + 1).
RECURSIVE EmaLoop(_, _, _, _, _)
EmaLoop(prices, period, k_num, i, ema) ==
    IF i > Len(prices)
    THEN ema
    ELSE LET prev == ema[i - 1]
             value == [nan |-> FALSE,
                       num |-> prices[i] * k_num * prev.den + prev.num * (period + 1 - k_num),
                       den |-> prev.den * (period + 1)]
         IN  EmaLoop(prices, period, k_num, i + 1, Append(ema, value))

\* calculate_ema: k = 2.0 / (period + 1) (line 61), the SMA seed (line 64).
calculate_ema(calc, prices, period) ==
    IF prices = << >> \/ Len(prices) < period
    THEN << >>
    ELSE EmaLoop(prices, period, 2, period + 1,
                 [i \in 1..period |->
                    IF i < period THEN NaN
                    ELSE [nan |-> FALSE, num |-> SumPrices(prices, period), den |-> period]])

InitEma ==
    /\ ema_in \in EmaInputs
    /\ ema_out = << >>
    /\ InitIdleM1 /\ InitTrade /\ IdleM30 /\ IdleFetch /\ IdleCall
    /\ IdleResample /\ IdleCandle /\ IdleDaily /\ IdleStop /\ IdleEval /\ IdleClock

\* The engine builds its calculator with the configured smoothing
\* (bot_engine.py:68-72) and the EMA of a price list is taken.
CalculateEma ==
    /\ ema_out = << >>
    /\ LET calc == IndicatorCalculator(ema_in.period, ema_in.period, ema_in.smoothing)
       IN  ema_out' = <<calculate_ema(calc, ema_in.prices, ema_in.period)>>
    /\ UNCHANGED <<ema_in, m1vars, tradevars, resvars, candvars, dailyvars, stopvars, evalvars,
                   clockvars, m30vars, fetchvars, callvars>>

NextEma == CalculateEma

SpecEma == InitEma /\ [][NextEma]_vars

\* C21: for a list of at least p prices, the EMA of period p starts with the
\* mean of the first p prices at index p-1 and then follows
\* ema[i] = c[i]*k + ema[i-1]*(1-k) with k = s/(p+1), s the configured smoothing.
C21_EmaUsesSmoothing ==
    (ema_out # << >> /\ Len(ema_in.prices) >= ema_in.period) =>
        LET ema == ema_out[1]
            c == ema_in.prices
            p == ema_in.period
            sm == ema_in.smoothing
        IN  /\ Len(ema) = Len(c)
            /\ ~ema[p].nan
            /\ ema[p].num * p = SumPrices(c, p) * ema[p].den
            /\ \A i \in (p + 1)..Len(c) :
                  /\ ~ema[i].nan
                  /\ ema[i].num * ema[i - 1].den * (p + 1)
                       = (c[i] * sm * ema[i - 1].den + ema[i - 1].num * (p + 1 - sm))
                           * ema[i].den

\* ============================================================== M30 break
\* M1 bars in an M30 bucket, as far as the model follows them (30 in the source).
M30Minutes == 3
\* M30 buckets the feed goes through.
MaxBuckets == 3

Sides == {"above", "below"}

\* The last two bars of the M30 list process_symbol takes from the resampler,
\* both with a long-EMA value: prev is the side (close >= snake or not) of the
\* bar before the last, last the side of the last bar, whose bucket holds
\* `minute` M1 bars so far and is over once it holds M30Minutes of them.
M30Feeds == [bucket : 1..MaxBuckets, minute : 1..M30Minutes, prev : Sides, last : Sides]

NoBreak == [last_break_type |-> "none", break_bar_index |-> -1, previous_state |-> "none"]

\* M30BreakDetector.update on such a list (lines 32-76).
M30Update(state, symbol, feed) ==
    LET st == [x \in DOMAIN state \cup {symbol} |->
                 IF x \in DOMAIN state THEN state[x] ELSE NoBreak]
        last_state == feed.last
        prev_state == feed.prev
    IN  IF prev_state # last_state
        THEN IF prev_state = "below" /\ last_state = "above"
             THEN [st EXCEPT ![symbol] = [last_break_type |-> "up",
                                          break_bar_index |-> feed.bucket,
                                          previous_state |-> prev_state]]
             ELSE [st EXCEPT ![symbol] = [last_break_type |-> "down",
                                          break_bar_index |-> feed.bucket,
                                          previous_state |-> prev_state]]
        ELSE st

\* check_upward_break / check_downward_break: update() first, then the answer.
check_upward_break(state, symbol, feed) ==
    LET st == M30Update(state, symbol, feed)
    IN  [state |-> st,
         result |-> st[symbol].last_break_type = "up" /\ feed.last = "above"]

check_downward_break(state, symbol, feed) ==
    LET st == M30Update(state, symbol, feed)
    IN  [state |-> st,
         result |-> st[symbol].last_break_type = "down" /\ feed.last = "below"]

\* M30BreakDetector.reset(symbol)
M30Reset(state, symbol) == [x \in DOMAIN state \ {symbol} |-> state[x]]

\* The calls process_symbol makes for a PAIN symbol: update (line 166), then
\* check_upward_break (245) and check_downward_break (320).
M30Process(state, symbol, feed) ==
    check_downward_break(
        check_upward_break(M30Update(state, symbol, feed), symbol, feed).state,
        symbol, feed).state

InitM30 ==
    /\ m30_feed \in {f \in M30Feeds : f.bucket = 1 /\ f.minute = 1}
    /\ m30_latch = << >>
    /\ InitIdleM1 /\ InitTrade /\ IdleEma /\ IdleFetch /\ IdleCall
    /\ IdleResample /\ IdleCandle /\ IdleDaily /\ IdleStop /\ IdleEval /\ IdleClock

\* process_symbol on the list as it is.
ProcessM30 ==
    /\ m30_latch' = M30Process(m30_latch, "PAINX", m30_feed)
    /\ UNCHANGED <<m30_feed, m1vars, tradevars, resvars, candvars, dailyvars, stopvars,
                   evalvars, clockvars, emavars, fetchvars, callvars>>

\* One more M1 bar is in the list, in the last bucket or opening the next one,
\* and process_symbol runs on the new list.
FeedM30 ==
    /\ \E side \in Sides :
          m30_feed' = IF m30_feed.minute < M30Minutes
                      THEN [m30_feed EXCEPT !.minute = @ + 1, !.last = side]
                      ELSE [bucket |-> m30_feed.bucket + 1, minute |-> 1,
                            prev |-> m30_feed.last, last |-> side]
    /\ m30_feed'.bucket <= MaxBuckets
    /\ m30_latch' = M30Process(m30_latch, "PAINX", m30_feed')
    /\ UNCHANGED <<m1vars, tradevars, resvars, candvars, dailyvars, stopvars, evalvars,
                   clockvars, emavars, fetchvars, callvars>>

CallM30Reset ==
    /\ "PAINX" \in DOMAIN m30_latch
    /\ m30_latch' = M30Reset(m30_latch, "PAINX")
    /\ UNCHANGED <<m30_feed, m1vars, tradevars, resvars, candvars, dailyvars, stopvars,
                   evalvars, clockvars, emavars, fetchvars, callvars>>

NextM30 == ProcessM30 \/ FeedM30 \/ CallM30Reset

\* The break detector driven through its methods on the lists process_symbol has.
SpecM30 == InitM30 /\ [][NextM30]_vars

LatchOf(state) ==
    IF "PAINX" \in DOMAIN state THEN state["PAINX"].last_break_type ELSE "none"

\* C28: the latch takes a new value only on a closed cross: the last bar of the
\* list is over and on the other side than the bar before it, or the bar that
\* has just been closed by a new bucket is on the other side than the bar before
\* it; the value is UP when the closed bar is ABOVE and DOWN otherwise.  The
\* latch goes back to NONE only by reset(), which is not given a new list.
C28_LatchOnClosedCross ==
    [][/\ (LatchOf(m30_latch') # LatchOf(m30_latch) /\ LatchOf(m30_latch') # "none")
          => \/ /\ m30_feed'.minute = M30Minutes
                /\ m30_feed'.last # m30_feed'.prev
                /\ LatchOf(m30_latch') = (IF m30_feed'.last = "above" THEN "up" ELSE "down")
             \/ /\ m30_feed'.bucket # m30_feed.bucket
                /\ m30_feed'.prev # m30_feed.prev
                /\ LatchOf(m30_latch') = (IF m30_feed'.prev = "above" THEN "up" ELSE "down")
       /\ (LatchOf(m30_latch) # "none" /\ LatchOf(m30_latch') = "none")
          => m30_feed' = m30_feed]_vars

\* ============================================================== bar cache
\* The clock is followed up to MaxNow seconds.
MaxNow == 64

\* Seconds a cached list is served for (line 394) and seconds between cycles (line 576).
cache_seconds == 60
cycle_seconds == 2

\* The timeframes get_bars_cached is called with: one it fetches, one it has no
\* broker constant for.
FetchTimeframes == {"M1", "M30"}

SupportedTimeframes == {"M1", "M5", "D1"}

\* What copy_rates_from_pos gives: bars, an empty array, or None.
BrokerReplies == {"bars", "empty", "none"}

\* get_bars_cached for one symbol: whether the broker is asked, and the cache after.
get_bars_cached_at(cache, timeframe, t, rates) ==
    IF timeframe \in DOMAIN cache /\ t - cache[timeframe] < cache_seconds
    THEN [asked |-> FALSE, cache |-> cache]
    ELSE IF timeframe \notin SupportedTimeframes
    THEN [asked |-> FALSE, cache |-> cache]
    ELSE IF rates \in {"none", "empty"}
    THEN [asked |-> TRUE, cache |-> cache]
    ELSE [asked |-> TRUE,
          cache |-> [x \in DOMAIN cache \cup {timeframe} |->
                       IF x = timeframe THEN t ELSE cache[x]]]

InitFetch ==
    /\ now = 0
    /\ last_update = << >>
    /\ last_ask = << >>
    /\ InitIdleM1 /\ InitTrade /\ IdleEma /\ IdleM30 /\ IdleCall
    /\ IdleResample /\ IdleCandle /\ IdleDaily /\ IdleStop /\ IdleEval /\ IdleClock

\* One call of get_bars_cached in a cycle.
GetBarsCached ==
    /\ \E timeframe \in FetchTimeframes, rates \in BrokerReplies :
          LET r == get_bars_cached_at(last_update, timeframe, now, rates)
          IN  /\ last_update' = r.cache
              /\ last_ask' = IF r.asked
                             THEN [x \in DOMAIN last_ask \cup {timeframe} |->
                                     IF x = timeframe THEN now ELSE last_ask[x]]
                             ELSE last_ask
    /\ UNCHANGED <<now, m1vars, tradevars, resvars, candvars, dailyvars, stopvars, evalvars,
                   clockvars, emavars, m30vars, callvars>>

\* asyncio.sleep(2) between two cycles.
Tick ==
    /\ now + cycle_seconds <= MaxNow
    /\ now' = now + cycle_seconds
    /\ UNCHANGED <<last_update, last_ask, m1vars, tradevars, resvars, candvars, dailyvars,
                   stopvars, evalvars, clockvars, emavars, m30vars, callvars>>

NextFetch == GetBarsCached \/ Tick

\* The bar cache of one symbol over the cycles of the loop.
SpecFetch == InitFetch /\ [][NextFetch]_vars

\* C29: the broker is asked for the bars of a timeframe only if it was not asked
\* for them in the 60 seconds before, whatever the earlier call returned.
C29_OneAskPerWindow ==
    [][\A timeframe \in FetchTimeframes :
          (/\ timeframe \in DOMAIN last_ask'
           /\ timeframe \in DOMAIN last_ask
           /\ last_ask'[timeframe] # last_ask[timeframe])
            => last_ask'[timeframe] - last_ask[timeframe] >= cache_seconds]_vars

\* ================================================= functions checked alone
\* Everything but the call under check, as left by construction.
restvars == <<resvars, candvars, dailyvars, stopvars, evalvars, clockvars, emavars, m30vars,
              fetchvars>>

IdleRest ==
    /\ InitIdleM1 /\ InitTrade
    /\ IdleResample /\ IdleCandle /\ IdleDaily /\ IdleStop /\ IdleEval /\ IdleClock
    /\ IdleEma /\ IdleM30 /\ IdleFetch

\* ------------------------------------------------ D1 key and trading day
\* TimezoneHandler(timezone, daily_close_hour): the close hour is kept as given.
TimezoneHandler(hour) == [daily_close_hour |-> hour]

\* get_current_trading_day of a handler, for a local instant in minutes.
get_current_trading_day_of(tz_handler, dt) ==
    IF HourOf(dt) < tz_handler.daily_close_hour THEN DateOf(dt) - 1 ELSE DateOf(dt)

CloseHours == 0..23

KeyInstants == {d * 1440 + h * 60 + mi : d \in 0..MaxDate, h \in 0..23, mi \in {0, 59}}

InitKey ==
    /\ args \in [dt : KeyInstants, daily_close_hour : CloseHours]
    /\ result = << >>
    /\ IdleRest

\* The resampler keys an M1 bar for D1; the anchor names the bar's trading day.
CallKey ==
    /\ result = << >>
    /\ result' = [key |-> _get_bar_key(args.dt, TIMEFRAMES["D1"]),
                  trading_day |-> get_current_trading_day_of(
                                      TimezoneHandler(args.daily_close_hour), args.dt)]
    /\ UNCHANGED <<args, m1vars, tradevars, restvars>>

NextKey == CallKey

SpecKey == InitKey /\ [][NextKey]_vars

h4_candidates == 2

MaxM15 == 3
MaxH4 == 3

\* The current trading day of the call; the M1 window of 7200 bars reaches back
\* over earlier trading days.
Today == 1

\* M15 bars with the trading day they belong to, H4 bars; None is << >>.
M15Bars == [day : 0..Today, low : {0, 2}, high : {2, 4}]

H4Bars == {[open |-> 1, close |-> 1, low |-> 0, high |-> 4],
           [open |-> 4, close |-> 4, low |-> 4, high |-> 4],
           [open |-> 1, close |-> 2, low |-> 1, high |-> 2],
           [open |-> 4, close |-> 1, low |-> 0, high |-> 4]}

SeqsUpTo(S, n) == UNION {[1..k -> S] : k \in 0..n}

M15Lists == {l \in SeqsUpTo(M15Bars, MaxM15) :
               \A i \in 1..(Len(l) - 1) : l[i].day <= l[i + 1].day}

H4Lists == SeqsUpTo(H4Bars, MaxH4)

MinOf(S) == CHOOSE x \in S : \A y \in S : x <= y

MaxOf(S) == CHOOSE x \in S : \A y \in S : x >= y

\* find_m15_swing_buy and find_m15_swing_sell compute the same three values;
\* fib50 is kept doubled.
find_m15_swing(m15_bars) ==
    IF Len(m15_bars) < 2
    THEN << >>
    ELSE LET swing_low == MinOf({m15_bars[i].low : i \in DOMAIN m15_bars})
             swing_high == MaxOf({m15_bars[i].high : i \in DOMAIN m15_bars})
         IN  <<[swing_low |-> swing_low, swing_high |-> swing_high,
                fib50x2 |-> 2 * swing_low + (swing_high - swing_low)]>>

\* Lines 102-106: the slices of h4_bars.
Candidates(h4_bars) ==
    LET n == Len(h4_bars)
        but_last == IF n > h4_candidates
                  THEN SubSeq(h4_bars, n - h4_candidates, n - 1)
                  ELSE SubSeq(h4_bars, 1, n - 1)
    IN  IF but_last # << >>
        THEN but_last
        ELSE IF n >= h4_candidates
        THEN SubSeq(h4_bars, n - h4_candidates + 1, n)
        ELSE h4_bars

\* Lines 112-119 from the i-th candidate on.
RECURSIVE LargestLoop(_, _, _, _)
LargestLoop(candidates, i, max_body, largest) ==
    IF i > Len(candidates)
    THEN largest
    ELSE LET bar == candidates[i]
             body == Abs(bar.close - bar.open)
         IN  IF body > max_body
             THEN LargestLoop(candidates, i + 1, body, <<bar>>)
             ELSE LargestLoop(candidates, i + 1, max_body, largest)

find_largest_body_h4(h4_bars) ==
    IF h4_bars = << >> THEN << >> ELSE LargestLoop(Candidates(h4_bars), 1, 0, << >>)

check_h4_covers_fib50(fib50x2, h4_bar) ==
    2 * h4_bar.low <= fib50x2 /\ fib50x2 <= 2 * h4_bar.high

\* check_gain_buy_structure and check_gain_sell_structure.
check_gain_structure(m15_bars, h4_bars) ==
    LET swing == find_m15_swing(m15_bars)
        h4_candle == find_largest_body_h4(h4_bars)
    IN  IF swing = << >>
        THEN [valid |-> FALSE, swing |-> << >>, h4_candle |-> << >>, h4_covers |-> FALSE]
        ELSE IF h4_candle = << >>
        THEN [valid |-> FALSE, swing |-> swing, h4_candle |-> << >>, h4_covers |-> FALSE]
        ELSE LET h4_covers == check_h4_covers_fib50(swing[1].fib50x2, h4_candle[1])
             IN  [valid |-> h4_covers, swing |-> swing, h4_candle |-> h4_candle,
                  h4_covers |-> h4_covers]

InitFib ==
    /\ args \in [M15 : M15Lists, H4 : H4Lists]
    /\ result = << >>
    /\ IdleRest

\* process_symbol, lines 190-199: the resampled M15 and H4 lists go to the check.
CallStructure ==
    /\ result = << >>
    /\ LET m15_bars == args.M15
           h4_bars == args.H4
       IN  result' = check_gain_structure(m15_bars, h4_bars)
    /\ UNCHANGED <<args, m1vars, tradevars, restvars>>

NextFib == CallStructure

SpecFib == InitFib /\ [][NextFib]_vars

TodaysM15 == LET today(b) == b.day = Today IN SelectSeq(args.M15, today)

\* C32: the swing low, swing high and 50% level the structure check uses come
\* from the M15 bars of the current trading day only.
C32_SwingFromToday ==
    (result # << >> /\ result.swing # << >>)
        => /\ Len(TodaysM15) >= 2
           /\ result.swing = find_m15_swing(TodaysM15)

\* The last N closed H4 bars: the forming last bar left out.
ClosedH4 ==
    LET n == Len(args.H4)
    IN  {args.H4[i] : i \in {j \in 1..(n - 1) : j >= n - h4_candidates}}

\* C33: with at least one closed H4 bar, the bar selected is one of the last N
\* closed bars with the largest body, all bodies being zero included, and the
\* check is valid exactly when that bar's range holds the 50% level.
C33_LargestBodyDecides ==
    (result # << >> /\ result.swing # << >> /\ Len(args.H4) >= 2)
        => /\ result.h4_candle # << >>
           /\ result.h4_candle[1] \in ClosedH4
           /\ \A c \in ClosedH4 :
                 Abs(result.h4_candle[1].close - result.h4_candle[1].open)
                     >= Abs(c.close - c.open)
           /\ result.valid = check_h4_covers_fib50(result.swing[1].fib50x2,
                                                   result.h4_candle[1])

\* ------------------------------------------------------------ exit check
\* The dict of tracked positions of a pain symbol, and the broker's side of it:
\* every tracked position, or some of them gone already.
ExitRecord(bot_type, ticket) ==
    [bot_type |-> bot_type, ticket |-> ticket,
     type |-> IF IsBuyBot(bot_type) THEN "BUY" ELSE "SELL"]

ExitLists ==
    {<< >>,
     <<ExitRecord("pain_buy", 1)>>,
     <<ExitRecord("pain_sell", 1)>>,
     <<ExitRecord("pain_buy", 1), ExitRecord("pain_sell", 2)>>,
     <<ExitRecord("pain_sell", 1), ExitRecord("pain_buy", 2)>>}

BrokerSide(positions) ==
    SUBSET {[ticket |-> positions[i].ticket, symbol |-> "PAINX",
             comment |-> positions[i].bot_type, type |-> positions[i].type,
             magic |-> magic] : i \in DOMAIN positions}

\* n: the signalled positions whose close the broker refuses.
InitExit ==
    /\ \E positions \in ExitLists, m5 \in M5Inputs, profit \in Profits :
         \E broker \in BrokerSide(positions), n \in 0..Len(Signalled(positions, m5)) :
            /\ \A i \in 1..n : Signalled(positions, m5)[i].ticket \in Tickets(broker)
            /\ args = [positions |-> positions, broker |-> broker, m5 |-> m5, n |-> n,
                       profit |-> profit]
    /\ result = << >>
    /\ IdleRest

CallCheckExits ==
    /\ result = << >>
    /\ result' = check_exits(args.positions, args.broker, args.m5, args.n, args.profit)
    /\ UNCHANGED <<args, m1vars, tradevars, restvars>>

NextExit == CallCheckExits

SpecExit == InitExit /\ [][NextExit]_vars

StillTracked(position) ==
    \E i \in DOMAIN result.positions : result.positions[i].bot_type = position.bot_type

FailedOutcomes == {"no_tick", "no_info", "no_result", "rejected"}

TradeResults == {-50, 0, 60}

MaxRecords == 3

\* args is the ledger here: what record_trade_result was called with, and the
\* trading day of the call.  result is what the gates last answered, << >>
\* once something was recorded or the day changed after that.
InitRisk ==
    /\ InitTrade /\ InitIdleM1
    /\ IdleResample /\ IdleCandle /\ IdleDaily /\ IdleStop /\ IdleEval /\ IdleClock
    /\ IdleEma /\ IdleM30 /\ IdleFetch /\ IdleCall

riskframe == <<pc, idx, todo, open_positions, mt5_positions, next_ticket, bot_states,
               bias_cache, step, cycle_entries, closed, stale, ordered, m1vars, restvars>>

RecordTradeResult ==
    /\ Len(args) < MaxRecords
    /\ \E s \in Symbols, profit_usd \in TradeResults :
          /\ daily_stats' = record_trade_result(daily_stats, s, profit_usd, day)
          /\ args' = Append(args, [symbol |-> s, day |-> day, profit_usd |-> profit_usd])
    /\ result' = << >>
    /\ UNCHANGED <<day, riskframe>>

\* check_all_gates for an entry of the symbol, the market being calm and no
\* position open.
CheckAllGates ==
    /\ \E s \in Symbols :
          LET stats == _get_daily_stats(daily_stats, s, day)
              risk_check == check_all_gates(GateResults(CalmMarket, stats, s, {}))
          IN  /\ daily_stats' = stats
              /\ result' = [symbol |-> s, allowed |-> risk_check.allowed,
                            profit |-> stats[s].profit, loss |-> stats[s].loss,
                            first |-> s \notin DOMAIN daily_stats
                                        \/ daily_stats[s].last_reset_day # day]
    /\ UNCHANGED <<args, day, riskframe>>

\* The daily close passes.
NextTradingDay ==
    /\ day < MaxDate
    /\ day' = day + 1
    /\ result' = << >>
    /\ UNCHANGED <<args, daily_stats, riskframe>>

NextRisk == RecordTradeResult \/ CheckAllGates \/ NextTradingDay

SpecRisk == InitRisk /\ [][NextRisk]_vars

RECURSIVE SumWins(_, _, _)
SumWins(ledger, s, d) ==
    IF ledger = << >> THEN 0
    ELSE (IF Head(ledger).symbol = s /\ Head(ledger).day = d /\ Head(ledger).profit_usd > 0
          THEN Head(ledger).profit_usd ELSE 0) + SumWins(Tail(ledger), s, d)

RECURSIVE SumLosses(_, _, _)
SumLosses(ledger, s, d) ==
    IF ledger = << >> THEN 0
    ELSE (IF Head(ledger).symbol = s /\ Head(ledger).day = d /\ Head(ledger).profit_usd < 0
          THEN -Head(ledger).profit_usd ELSE 0) + SumLosses(Tail(ledger), s, d)

\* C37: the profit and loss the gates consult are exactly the results recorded
\* for the symbol on the current trading day; the first access of a trading day
\* gives zero when nothing was recorded on it; and while the day's recorded
\* profit is at the daily target or above, no entry of the symbol passes.
C37_AggregatesAreTodaysResults ==
    /\ \A s \in Symbols :
          LET stats == _get_daily_stats(daily_stats, s, day)[s]
          IN  /\ stats.profit = SumWins(args, s, day)
              /\ stats.loss = SumLosses(args, s, day)
    /\ result # << >>
          => /\ result.profit = SumWins(args, result.symbol, day)
             /\ result.loss = SumLosses(args, result.symbol, day)
             /\ (result.first /\ \A i \in DOMAIN args :
                                    args[i].symbol = result.symbol => args[i].day # day)
                   => result.profit = 0 /\ result.loss = 0
             /\ SumWins(args, result.symbol, day) >= daily_target_usd => ~result.allowed

C37_Witness ==
    /\ result # << >>
    /\ ~result.allowed
    /\ day = 1
    /\ result.profit >= daily_target_usd
    /\ result.loss = 0
    /\ \E i \in DOMAIN args : args[i].symbol = result.symbol /\ args[i].day = 0

\* ------------------------------------------------- update() on the same bars
\* C38: update() called again with the bar list of the call before leaves the
\* state dict as it is.  A machine is in CROSSED only through update(), so the
\* cached list is the one that call was given.
C38_SameBarsSameState ==
    \A s \in Symbols :
        (s \in DOMAIN m1_states /\ InCrossed(StateOf(m1_states, s)))
            => \A f \in SameBars(m1_cache[s]) :
                  M1Update(m1_states, s, f.len, f.prev, f.curr) = m1_states

\* ------------------------------------------------------ one side at a time
\* C39: in the bot_results of one process_symbol call, a BUY-side bot and a
\* SELL-side bot of the symbol are never both ready, whatever the trend, break
\* and structure checks say.
C39_OneSideReady ==
    eval_out # << >> =>
        \A k \in DOMAIN eval_out, j \in DOMAIN eval_out :
            (IsBuyBot(eval_out[k].bot_type) /\ ~IsBuyBot(eval_out[j].bot_type))
                => ~(eval_out[k].ready /\ eval_out[j].ready)

C39_Witness ==
    /\ eval_out # << >>
    /\ eval_in.fl.trend_buy /\ eval_in.fl.trend_sell
    /\ eval_in.fl.break_up /\ eval_in.fl.break_down
    /\ ~eval_in.halted
    /\ \E k \in DOMAIN eval_out : eval_out[k].bot_type = "pain_buy" /\ eval_out[k].ready
    /\ \E j \in DOMAIN eval_out : eval_out[j].bot_type = "pain_sell" /\ ~eval_out[j].ready

\* ------------------------------------------------- M30 break in the warm-up
\* 'above' if close >= snake else 'below' (lines 53-54); a comparison with NaN
\* is False.
SideOf(close, snake) ==
    IF ~snake.nan /\ close * snake.den >= snake.num THEN "above" ELSE "below"

\* M30BreakDetector.update on the M30 closes and the long-EMA list (lines 32-76).
M30UpdateBars(state, symbol, closes, snake_values) ==
    IF closes = << >> \/ snake_values = << >> \/ Len(closes) # Len(snake_values)
    THEN state
    ELSE IF Len(closes) < 2
    THEN [x \in DOMAIN state \cup {symbol} |->
            IF x \in DOMAIN state THEN state[x] ELSE NoBreak]
    ELSE M30Update(state, symbol,
                   [bucket |-> Len(closes), minute |-> M30Minutes,
                    prev |-> SideOf(closes[Len(closes) - 1], snake_values[Len(closes) - 1]),
                    last |-> SideOf(closes[Len(closes)], snake_values[Len(closes)])])

InitWarm ==
    /\ args \in [closes : UNION {[1..n -> EmaPrices] : n \in 0..MaxEmaLen},
                 snake_period : EmaPeriods]
    /\ result = << >>
    /\ IdleRest

\* process_symbol, lines 140-166, for a symbol met for the first time: the long
\* EMA of the M30 closes, then the detector's update.
UpdateM30Break ==
    /\ result = << >>
    /\ LET calc == IndicatorCalculator(args.snake_period, args.snake_period, 2)
           m30_snake == calculate_ema(calc, args.closes, calc.snake_period)
       IN  result' = [snake |-> m30_snake,
                      state |-> M30UpdateBars(<< >>, "PAINX", args.closes, m30_snake)]
    /\ UNCHANGED <<args, m1vars, tradevars, restvars>>

NextWarm == UpdateM30Break

SpecWarm == InitWarm /\ [][NextWarm]_vars

\* C40: a break is recorded only from two bars that both have a long-EMA value;
\* a bar without one is not taken for a bar below the EMA.
C40_BreakNeedsBothEmas ==
    (result # << >> /\ LatchOf(result.state) # "none")
        => /\ ~result.snake[Len(args.closes)].nan
           /\ ~result.snake[Len(args.closes) - 1].nan

\* ------------------------------------------------------------ trend filter
timeframes_to_check == <<"H1", "M30", "M15">>

\* A latest value: None is << >>, a number v is <<v>>.
Latest == {<< >>, <<1>>, <<2>>}

\* tf_indicators: a timeframe may have no entry; an entry holds the latest
\* close and the latest long EMA, either of which may be None.
TfData ==
    UNION {[D -> [close_latest : Latest, snake_latest : Latest]] :
             D \in SUBSET {"H1", "M30", "M15"}}

\* The colour whatever the flag: green on equality.
get_snake_color_ignoring_flag(close, snake_ema, equality_is_not_trend) ==
    IF close >= snake_ema THEN "green" ELSE "red"

get_snake_color(close, snake_ema, equality_is_not_trend) ==
    IF equality_is_not_trend
    THEN IF close > snake_ema THEN "green"
         ELSE IF close < snake_ema THEN "red"
         ELSE "neutral"
    ELSE IF close >= snake_ema THEN "green" ELSE "red"

\* The loop of check_alignment from the i-th timeframe on (lines 49-77).
RECURSIVE AlignmentLoop(_, _, _, _, _)
AlignmentLoop(tf_data, required_color, equality_is_not_trend, i, all_aligned) ==
    IF i > Len(timeframes_to_check)
    THEN all_aligned
    ELSE LET tf == timeframes_to_check[i]
         IN  IF tf \notin DOMAIN tf_data
             THEN AlignmentLoop(tf_data, required_color, equality_is_not_trend, i + 1, FALSE)
             ELSE LET close == tf_data[tf].close_latest
                      snake == tf_data[tf].snake_latest
                  IN  IF close = << >> \/ snake = << >>
                      THEN AlignmentLoop(tf_data, required_color, equality_is_not_trend,
                                         i + 1, FALSE)
                      ELSE LET color == get_snake_color(close[1], snake[1],
                                                        equality_is_not_trend)
                               is_aligned == color = required_color
                           IN  AlignmentLoop(tf_data, required_color, equality_is_not_trend,
                                             i + 1, all_aligned /\ is_aligned)

check_alignment(tf_data, required_color, equality_is_not_trend) ==
    [aligned |-> AlignmentLoop(tf_data, required_color, equality_is_not_trend, 1, TRUE)]

InitTrend ==
    /\ args \in [tf_data : TfData, required_color : {"green", "red"},
                 equality_is_not_trend : BOOLEAN]
    /\ result = << >>
    /\ IdleRest

CallCheckAlignment ==
    /\ result = << >>
    /\ result' = check_alignment(args.tf_data, args.required_color,
                                 args.equality_is_not_trend)
    /\ UNCHANGED <<args, m1vars, tradevars, restvars>>

NextTrend == CallCheckAlignment

SpecTrend == InitTrend /\ [][NextTrend]_vars

\* C35: aligned is true for the required colour exactly when each of H1, M30
\* and M15 has a latest close and a latest long EMA and its colour is the
\* required one, the colour being GREEN for close > EMA, RED for close < EMA,
\* and for close = EMA NEUTRAL with the equality flag set and GREEN without it.
C35_AlignedIffAllColoured ==
    result # << >> =>
        (result.aligned <=>
            \A tf \in {"H1", "M30", "M15"} :
                /\ tf \in DOMAIN args.tf_data
                /\ args.tf_data[tf].close_latest # << >>
                /\ args.tf_data[tf].snake_latest # << >>
                /\ LET c == args.tf_data[tf].close_latest[1]
                       e == args.tf_data[tf].snake_latest[1]
                   IN  args.required_color =
                          (IF c > e THEN "green"
                           ELSE IF c < e THEN "red"
                           ELSE IF args.equality_is_not_trend THEN "neutral"
                           ELSE "green"))

C35_Witness ==
    /\ result # << >>
    /\ result.aligned
    /\ args.required_color = "green"
    /\ ~args.equality_is_not_trend
    /\ args.tf_data["M30"].close_latest = args.tf_data["M30"].snake_latest
    /\ args.tf_data["H1"].close_latest # args.tf_data["H1"].snake_latest

====
